---------------------------- MODULE Spec2Model ----------------------------
(***************************************************************************)
(* Model of the endian_utils library (mz::endian): byteSwap, the          *)
(* endian-aware basicCopy routines, BasicWriteBuffer, BasicReadBuffer,     *)
(* BasicVector / Vector and ByteArray<N>.                                  *)
(*                                                                         *)
(* Representation.  A fixed-width value of sizeof(T) = w is the sequence   *)
(* of its w bytes, least significant first: value[i] = (x >> 8(i-1)) mod   *)
(* 256.  Signed/unsigned and enum/underlying static_casts of equal width   *)
(* keep the bit pattern, hence keep this sequence.  Memory is a sequence   *)
(* of bytes; a pointer is the number of bytes between the start of the     *)
(* caller's array and the pointee (the array itself sits at a non-null     *)
(* address of a 64-bit address space, so pointer sums do not wrap).        *)
(***************************************************************************)
EXTENDS Integers, Sequences, FiniteSets, TLC

VARIABLES
    host,   \* the build: [native, impl, wchar]
    sw,     \* byteSwap driver: the value, its swap and the swap of that
    mem,    \* the caller-supplied backing array
    wb,     \* BasicWriteBuffer: [begin, end]    (m_begin, m_end)
    rb,     \* BasicReadBuffer:  [begin, end]    (m_begin, m_end)
    lastW,  \* the call made on the write buffer: operation, argument,
            \* result, state before it
    lastR,  \* the call made on the read buffer: operation, destination
            \* before and after, result, state before it
    stage,  \* position of the client: "constructed", "written" or "read";
            \* "reading" for a client that goes on reading
    ub,     \* TRUE once a call has accessed bytes outside the caller's array
    rb0,    \* the read buffer as it was constructed
    va,     \* a Vector: [size, data, cap]  (m_size, m_data, m_data.capacity())
    vb,     \* a second Vector
    lastV,  \* the call made on the vectors: operation, arguments, results
    hist,   \* the values appended to va since it was constructed, in order
    key     \* ByteArray<N> client: N, the input string, the array filled
            \* and the hash returned

bufVars == <<mem, wb, rb, lastW, lastR, stage, ub, rb0>>
vecVars == <<va, vb, lastV, hist>>
vars == <<host, sw, mem, wb, rb, lastW, lastR, stage, ub, rb0, va, vb, lastV, hist, key>>

-----------------------------------------------------------------------------
(* Bounds of the model.                                                    *)

\* length of the caller's array
MemLen == 16
\* bytes of the array after the end of the buffers built over it
GuardLen == 3
\* longest content of a string argument (besides the literal "hello")
MaxStrLen == 2
\* longest span argument
MaxSpanLen == 2
\* number of distinct byte values the byteSwap driver draws from
NumSwapBytes == 2
\* largest storage (m_data.size()) the vector client grows a Vector to, one
\* framed string apart
MaxVecSize == 3
\* most bytes the appending client appends to a Vector
MaxGrowSize == 8
\* largest storage of the two Vectors the comparing client builds
MaxEqSize == 2
\* largest ByteArray<N> and longest input string of the key client
MaxKeySize == 4
MaxKeyLen == 5
\* longest string the reassigning key client uses
MaxAssignLen == 2
\* most items the stacking client pushes before it pops
MaxLifoDepth == 3

-----------------------------------------------------------------------------
(* Bytes and bitwise arithmetic on them.                                   *)

Byte == 0..255

RECURSIVE BitAnd(_, _)
BitAnd(a, b) ==
    IF a = 0 \/ b = 0 THEN 0
    ELSE (a % 2) * (b % 2) + 2 * BitAnd(a \div 2, b \div 2)

RECURSIVE BitOr(_, _)
BitOr(a, b) ==
    IF a = 0 THEN b
    ELSE IF b = 0 THEN a
    ELSE (IF a % 2 = 1 \/ b % 2 = 1 THEN 1 ELSE 0) + 2 * BitOr(a \div 2, b \div 2)

RECURSIVE BitXor(_, _)
BitXor(a, b) ==
    IF a = 0 THEN b
    ELSE IF b = 0 THEN a
    ELSE ((a + b) % 2) + 2 * BitXor(a \div 2, b \div 2)

\* x & m, x | y on unsigned integers of equal width
And(x, m) == [i \in 1..Len(x) |-> BitAnd(x[i], m[i])]
Or(x, y)  == [i \in 1..Len(x) |-> BitOr(x[i], y[i])]
Xor(x, y) == [i \in 1..Len(x) |-> BitXor(x[i], y[i])]

\* x >> bits and x << bits within the width of x, for bits a multiple of 8
ShiftRight(x, bits) ==
    [i \in 1..Len(x) |-> IF i + (bits \div 8) <= Len(x) THEN x[i + (bits \div 8)] ELSE 0]
ShiftLeft(x, bits) ==
    [i \in 1..Len(x) |-> IF i - (bits \div 8) >= 1 THEN x[i - (bits \div 8)] ELSE 0]

\* integer conversion to an unsigned type of n bytes (zero extension or truncation)
Convert(x, n) == [i \in 1..n |-> IF i <= Len(x) THEN x[i] ELSE 0]

\* the literal with 0xFF in byte k (0 = least significant) of an n-byte unsigned
MaskByte(n, k) == [i \in 1..n |-> IF i = k + 1 THEN 255 ELSE 0]

Reverse(s) == [i \in 1..Len(s) |-> s[Len(s) + 1 - i]]

-----------------------------------------------------------------------------
(* EndianConversions.h                                                     *)

\* the compiler / OS byte swap primitives (_byteswap_ulong, __builtin_bswap32,
\* OSSwapInt32, ...): the value with its bytes in the opposite order
IntrinsicBswap(x) == Reverse(x)

\* a slip in the generic 16-bit swap: the low byte is not moved up
FallbackBswap16NoShift(x) ==
    LET v == Convert(Convert(x, 2), 4)
    IN  Convert(Or(ShiftRight(And(v, MaskByte(4, 1)), 8),
                   And(v, MaskByte(4, 0))), 2)

\* generic MZ_BSWAP16: the operands are promoted to 32-bit unsigned, the
\* result is converted to uint16_t
FallbackBswap16(x) ==
    LET v == Convert(Convert(x, 2), 4)
    IN  Convert(Or(ShiftRight(And(v, MaskByte(4, 1)), 8),
                   ShiftLeft(And(v, MaskByte(4, 0)), 8)), 2)

\* a slip in the generic 32-bit swap: the two middle bytes keep their places
FallbackBswap32MiddleKept(x) ==
    LET v == Convert(x, 4)
    IN  Or(Or(ShiftRight(And(v, MaskByte(4, 3)), 24),
              And(v, MaskByte(4, 2))),
           Or(And(v, MaskByte(4, 1)),
              ShiftLeft(And(v, MaskByte(4, 0)), 24)))

\* generic MZ_BSWAP32
FallbackBswap32(x) ==
    LET v == Convert(x, 4)
    IN  Or(Or(ShiftRight(And(v, MaskByte(4, 3)), 24),
              ShiftRight(And(v, MaskByte(4, 2)), 8)),
           Or(ShiftLeft(And(v, MaskByte(4, 1)), 8),
              ShiftLeft(And(v, MaskByte(4, 0)), 24)))

\* generic MZ_BSWAP64
FallbackBswap64(x) ==
    LET v == Convert(x, 8)
    IN  Or(Or(Or(ShiftRight(And(v, MaskByte(8, 7)), 56),
                 ShiftRight(And(v, MaskByte(8, 6)), 40)),
              Or(ShiftRight(And(v, MaskByte(8, 5)), 24),
                 ShiftRight(And(v, MaskByte(8, 4)), 8))),
           Or(Or(ShiftLeft(And(v, MaskByte(8, 3)), 8),
                 ShiftLeft(And(v, MaskByte(8, 2)), 24)),
              Or(ShiftLeft(And(v, MaskByte(8, 1)), 40),
                 ShiftLeft(And(v, MaskByte(8, 0)), 56))))

\* the macros as the preprocessor selects them for the build
MZ_BSWAP16(impl, x) == IF impl = "intrinsic" THEN IntrinsicBswap(x) ELSE FallbackBswap16(x)
MZ_BSWAP32(impl, x) == IF impl = "intrinsic" THEN IntrinsicBswap(x) ELSE FallbackBswap32(x)
MZ_BSWAP64(impl, x) == IF impl = "intrinsic" THEN IntrinsicBswap(x) ELSE FallbackBswap64(x)

\* byteSwap(T value) for integral T, sizeof(T) in {1, 2, 4, 8}
byteSwap(impl, value) ==
    CASE Len(value) = 1 -> value
      [] Len(value) = 2 -> Convert(MZ_BSWAP16(impl, Convert(value, 2)), 2)
      [] Len(value) = 4 -> Convert(MZ_BSWAP32(impl, Convert(value, 4)), 4)
      [] Len(value) = 8 -> Convert(MZ_BSWAP64(impl, Convert(value, 8)), 8)

\* byteSwap(E value) for an enumeration E: through the underlying type
byteSwapEnum(impl, value) ==
    IF Len(value) = 1 THEN value ELSE byteSwap(impl, value)

\* overload resolution of byteSwap on the kind of T
byteSwapOf(impl, kind, value) ==
    IF kind = "enum" THEN byteSwapEnum(impl, value) ELSE byteSwap(impl, value)

-----------------------------------------------------------------------------
(* EndianConcepts.h: byte orders and the endian-aware copies.              *)

\* stream_endian: the byte order of serialized data
stream_endian == "little"

\* the object representation of a value in the memory of the host, in
\* address order, and the value an object representation stands for
ObjectBytes(native, value) == IF native = "little" THEN value ELSE Reverse(value)
ValueOf(native, bytes) == IF native = "little" THEN bytes ELSE Reverse(bytes)

\* std::memcpy(m + dest, bytes, Len(bytes)); bytes that fall outside the
\* array are not stored (the call is then flagged through ub)
Memcpy(m, dest, bytes) ==
    [i \in 1..Len(m) |->
        IF dest < i /\ i <= dest + Len(bytes) THEN bytes[i - dest] ELSE m[i]]

\* the n bytes at m + src
ReadBytes(m, src, n) ==
    [i \in 1..n |-> IF src + i >= 1 /\ src + i <= Len(m) THEN m[src + i] ELSE 0]

\* the object representations of the elements of a span, one after another
RECURSIVE SpanBytes(_, _)
SpanBytes(native, span) ==
    IF span = <<>> THEN <<>>
    ELSE ObjectBytes(native, Head(span)) \o SpanBytes(native, Tail(span))

\* typedPtr[i] = byteSwap(typedPtr[i]) on the w-byte object at m + at
SwapInPlace(h, m, at, w) ==
    Memcpy(m, at, ObjectBytes(h.native,
                    byteSwap(h.impl, ValueOf(h.native, ReadBytes(m, at, w)))))

\* a slip in basicCopy(void*, T): the value is stored in native order
basicCopyToMemNoSwap(enc, h, m, dest, value) ==
    Memcpy(m, dest, ObjectBytes(h.native, value))

\* basicCopy<Encoding>(void* destination, T value)
basicCopyToMem(enc, h, m, dest, value) ==
    LET m1 == Memcpy(m, dest, ObjectBytes(h.native, value))
    IN  IF h.native # enc THEN SwapInPlace(h, m1, dest, Len(value)) ELSE m1

\* the loop of basicCopy(void*, span): elements i..n of the copy are swapped
RECURSIVE SwapElements(_, _, _, _, _, _)
SwapElements(h, m, dest, w, i, n) ==
    IF i >= n THEN m
    ELSE SwapElements(h, SwapInPlace(h, m, dest + w * i, w), dest, w, i + 1, n)

\* basicCopy<Encoding>(void* destination, const std::span<T, N>& source),
\* sizeof(T) = w
basicCopySpanToMem(enc, h, m, dest, w, span) ==
    LET m1 == Memcpy(m, dest, SpanBytes(h.native, span))
    IN  IF h.native # enc /\ w > 1
        THEN SwapElements(h, m1, dest, w, 0, Len(span))
        ELSE m1

\* a slip in basicCopy(T&, const void*): the bytes are taken in native order
basicCopyFromMemNoSwap(enc, h, m, src, w) ==
    ValueOf(h.native, ReadBytes(m, src, w))

\* basicCopy<Encoding>(T& destination, const void* source), sizeof(T) = w
basicCopyFromMem(enc, h, m, src, w) ==
    LET v == ValueOf(h.native, ReadBytes(m, src, w))
    IN  IF h.native # enc THEN byteSwap(h.impl, v) ELSE v

\* basicCopy<Encoding>(std::span<T, N> destination, const void* source):
\* the n elements of width w read from m + src
basicCopySpanFromMem(enc, h, m, src, w, n) ==
    [i \in 1..n |->
        LET v == ValueOf(h.native, ReadBytes(m, src + w * (i - 1), w))
        IN  IF h.native # enc /\ w > 1 THEN byteSwap(h.impl, v) ELSE v]

-----------------------------------------------------------------------------
(* Integers of the buffer code.                                            *)

\* static_cast<uint32_t>(n) for a size n
RECURSIVE NatBytes(_, _)
NatBytes(n, w) == IF w = 0 THEN <<>> ELSE <<n % 256>> \o NatBytes(n \div 256, w - 1)

\* the number a uint32_t stands for, when below 2^31
U32Small(v) == v[4] < 128
U32Nat(v) == v[1] + 256 * v[2] + 65536 * v[3] + 16777216 * v[4]

\* p + size + extra <= q for pointers p <= q into the array and a uint32_t
\* size: a size of 2^31 or more exceeds every distance inside the array
FitsAfter(p, n32, extra, q) ==
    U32Small(n32) /\ p + U32Nat(n32) + extra <= q

\* a std::string as the span of its chars, and back
CharSpan(str) == [i \in 1..Len(str) |-> <<str[i]>>]
SpanChars(span) == [i \in 1..Len(span) |-> span[i][1]]

-----------------------------------------------------------------------------
(* BasicWriteBuffer<Encoding>.  A buffer together with the array it points *)
(* into is the record s = [mem, begin, end].                               *)

\* unsafePushBack(T value)
unsafePushBack(enc, h, s, value) ==
    [s EXCEPT !.mem = basicCopyToMem(enc, h, s.mem, s.begin, value),
              !.begin = s.begin + Len(value)]

\* unsafePushBack(const std::span<T, N>& span), sizeof(T) = w
unsafePushBackSpan(enc, h, s, w, span) ==
    [s EXCEPT !.mem = basicCopySpanToMem(enc, h, s.mem, s.begin, w, span),
              !.begin = s.begin + w * Len(span)]

\* calculateSerializedSize(const std::string&)
calculateSerializedSize(str) == Len(str) + 8

\* a slip in unsafePushBack(const std::string&): the trailing length is not
\* written
unsafePushBackStringNoSuffix(enc, h, s, str) ==
    LET sizeField == NatBytes(Len(str), 4)
        s1 == unsafePushBack(enc, h, s, sizeField)
    IN  unsafePushBackSpan(enc, h, s1, 1, CharSpan(str))

\* unsafePushBack(const std::string& str)
unsafePushBackString(enc, h, s, str) ==
    LET sizeField == NatBytes(Len(str), 4)
        s1 == unsafePushBack(enc, h, s, sizeField)
        s2 == unsafePushBackSpan(enc, h, s1, 1, CharSpan(str))
    IN  unsafePushBack(enc, h, s2, sizeField)

\* calculateSerializedSize(const std::wstring&)
calculateSerializedSizeW(wstr) == Len(wstr) * 2 + 8

\* unsafePushBack(const std::wstring& wstr), sizeof(wchar_t) = h.wchar
unsafePushBackWString(enc, h, s, wstr) ==
    LET sizeField == NatBytes(Len(wstr), 4)
        s1 == unsafePushBack(enc, h, s, sizeField)
        s2 == unsafePushBackSpan(enc, h, s1, h.wchar, wstr)
    IN  unsafePushBack(enc, h, s2, sizeField)

\* a slip in pushBack(T): the value is written before the room is checked
pushBackWritesFirst(enc, h, s, value) ==
    LET s1 == unsafePushBack(enc, h, s, value)
    IN  IF s1.begin <= s1.end
        THEN [s |-> s1, ret |-> FALSE]
        ELSE [s |-> s1, ret |-> TRUE]

\* a slip in pushBack(T): < in place of <=
pushBackStrict(enc, h, s, value) ==
    IF s.begin + Len(value) < s.end
    THEN [s |-> unsafePushBack(enc, h, s, value), ret |-> FALSE]
    ELSE [s |-> s, ret |-> TRUE]

\* bool pushBack(T value): [s, ret], ret = TRUE reports failure
pushBack(enc, h, s, value) ==
    IF s.begin + Len(value) <= s.end
    THEN [s |-> unsafePushBack(enc, h, s, value), ret |-> FALSE]
    ELSE [s |-> s, ret |-> TRUE]

\* bool pushBack(const std::span<T, N>& span)
pushBackSpan(enc, h, s, w, span) ==
    IF s.begin + w * Len(span) <= s.end
    THEN [s |-> unsafePushBackSpan(enc, h, s, w, span), ret |-> FALSE]
    ELSE [s |-> s, ret |-> TRUE]

\* a slip in pushBackSome: the count is not limited to what fits
pushBackSomeAll(enc, h, s, w, span) ==
    [s |-> unsafePushBackSpan(enc, h, s, w, span), ret |-> Len(span)]

\* size_t pushBackSome(const std::span<T, N>& span), sizeof(T) = w, on a
\* buffer with m_begin <= m_end: the buffer and the count returned
pushBackSome(enc, h, s, w, span) ==
    LET maxElements == (s.end - s.begin) \div w
        elementsToWrite == IF maxElements < Len(span) THEN maxElements ELSE Len(span)
    IN  IF elementsToWrite > 0
        THEN [s |-> unsafePushBackSpan(enc, h, s, w, SubSeq(span, 1, elementsToWrite)),
              ret |-> elementsToWrite]
        ELSE [s |-> s, ret |-> elementsToWrite]

\* bool pushBack(const std::string& str)
pushBackString(enc, h, s, str) ==
    LET requiredSize == calculateSerializedSize(str)
    IN  IF s.begin + requiredSize <= s.end
        THEN [s |-> unsafePushBackString(enc, h, s, str), ret |-> FALSE]
        ELSE [s |-> s, ret |-> TRUE]

\* bool pushBack(const std::wstring& wstr)
pushBackWString(enc, h, s, wstr) ==
    LET requiredSize == calculateSerializedSizeW(wstr)
    IN  IF s.begin + requiredSize <= s.end
        THEN [s |-> unsafePushBackWString(enc, h, s, wstr), ret |-> FALSE]
        ELSE [s |-> s, ret |-> TRUE]

\* empty(), error() and size() of either buffer; the base pointer of the
\* caller's array is not null
empty(b) == b.begin = b.end
error(b) == b.end < b.begin
size(b) == b.end - b.begin

-----------------------------------------------------------------------------
(* BasicReadBuffer<Encoding>.  A read returns [s, out] or [s, ret, out]:   *)
(* the buffer after the call, the result and the destination object.      *)

\* unsafePopFront(T& value), sizeof(T) = w
unsafePopFront(enc, h, s, w) ==
    [s |-> [s EXCEPT !.begin = s.begin + w],
     out |-> basicCopyFromMem(enc, h, s.mem, s.begin, w)]

\* unsafePopFront(std::span<T, N> span), n elements of width w
unsafePopFrontSpan(enc, h, s, w, n) ==
    [s |-> [s EXCEPT !.begin = s.begin + w * n],
     out |-> basicCopySpanFromMem(enc, h, s.mem, s.begin, w, n)]

\* unsafePopBack(T& value)
unsafePopBack(enc, h, s, w) ==
    [s |-> [s EXCEPT !.end = s.end - w],
     out |-> basicCopyFromMem(enc, h, s.mem, s.end - w, w)]

\* a slip in unsafePopBack(span): the elements are read at m_end as it was
\* before it was moved back
unsafePopBackSpanReadsOldEnd(enc, h, s, w, n) ==
    [s |-> [s EXCEPT !.end = s.end - w * n],
     out |-> basicCopySpanFromMem(enc, h, s.mem, s.end, w, n)]

\* unsafePopBack(std::span<T, N> span)
unsafePopBackSpan(enc, h, s, w, n) ==
    [s |-> [s EXCEPT !.end = s.end - w * n],
     out |-> basicCopySpanFromMem(enc, h, s.mem, s.end - w * n, w, n)]

\* bool popFront(T& value); old is the destination before the call
popFront(enc, h, s, w, old) ==
    IF s.begin + w <= s.end
    THEN [s |-> unsafePopFront(enc, h, s, w).s, ret |-> FALSE,
          out |-> unsafePopFront(enc, h, s, w).out]
    ELSE [s |-> s, ret |-> TRUE, out |-> old]

\* bool popFront(std::span<T, N> span); old holds the n destination elements
popFrontSpan(enc, h, s, w, old) ==
    IF s.begin + w * Len(old) <= s.end
    THEN [s |-> unsafePopFrontSpan(enc, h, s, w, Len(old)).s, ret |-> FALSE,
          out |-> unsafePopFrontSpan(enc, h, s, w, Len(old)).out]
    ELSE [s |-> s, ret |-> TRUE, out |-> old]

\* bool popBack(T& value)
popBack(enc, h, s, w, old) ==
    IF s.begin + w <= s.end
    THEN [s |-> unsafePopBack(enc, h, s, w).s, ret |-> FALSE,
          out |-> unsafePopBack(enc, h, s, w).out]
    ELSE [s |-> s, ret |-> TRUE, out |-> old]

\* bool popBack(std::span<T, N> span)
popBackSpan(enc, h, s, w, old) ==
    IF s.begin + w * Len(old) <= s.end
    THEN [s |-> unsafePopBackSpan(enc, h, s, w, Len(old)).s, ret |-> FALSE,
          out |-> unsafePopBackSpan(enc, h, s, w, Len(old)).out]
    ELSE [s |-> s, ret |-> TRUE, out |-> old]

\* a slip in the failure path of popFront(std::string&): m_begin is left
\* where the partial read stopped
failFrontNoRestore(s, oldBegin) ==
    [s |-> s, ret |-> TRUE, out |-> <<>>]

\* the failure path of popFront(std::string&): str.clear(), m_begin = oldBegin
failFront(s, oldBegin) ==
    [s |-> [s EXCEPT !.begin = oldBegin], ret |-> TRUE, out |-> <<>>]

\* the failure path of popBack(std::string&): str.clear(), m_end = oldEnd
failBack(s, oldEnd) ==
    [s |-> [s EXCEPT !.end = oldEnd], ret |-> TRUE, out |-> <<>>]

\* bool popFront(std::string& str)
popFrontString(enc, h, s, old) ==
    LET oldBegin == s.begin
    IN  IF s.begin + 8 <= s.end
        THEN LET p1 == unsafePopFront(enc, h, s, 4)
                 sizeField == p1.out
             IN  IF FitsAfter(p1.s.begin, sizeField, 4, p1.s.end)
                 THEN LET p2 == unsafePopFrontSpan(enc, h, p1.s, 1, U32Nat(sizeField))
                          p3 == unsafePopFront(enc, h, p2.s, 4)
                          sizeCheck == p3.out
                      IN  IF sizeField = sizeCheck
                          THEN [s |-> p3.s, ret |-> FALSE, out |-> SpanChars(p2.out)]
                          ELSE failFront(p3.s, oldBegin)
                 ELSE failFront(p1.s, oldBegin)
        ELSE failFront(s, oldBegin)

\* bool popBack(std::string& str)
popBackString(enc, h, s, old) ==
    LET oldEnd == s.end
    IN  IF s.begin + 8 <= s.end
        THEN LET p1 == unsafePopBack(enc, h, s, 4)
                 sizeField == p1.out
             IN  IF FitsAfter(p1.s.begin, sizeField, 4, p1.s.end)
                 THEN LET p2 == unsafePopBackSpan(enc, h, p1.s, 1, U32Nat(sizeField))
                          p3 == unsafePopBack(enc, h, p2.s, 4)
                          sizeCheck == p3.out
                      IN  IF sizeField = sizeCheck
                          THEN [s |-> p3.s, ret |-> FALSE, out |-> SpanChars(p2.out)]
                          ELSE failBack(p3.s, oldEnd)
                 ELSE failBack(p1.s, oldEnd)
        ELSE failBack(s, oldEnd)

\* m_begin + (size * sizeof(wchar_t)) + 4 <= m_end for a uint32_t size and
\* sizeof(wchar_t) = w; the product is formed in size_t and does not wrap
FitsAfterW(p, n32, w, extra, q) ==
    /\ U32Small(n32)
    /\ q - p - extra >= 0
    /\ U32Nat(n32) <= (q - p - extra) \div w

\* bool popFront(std::wstring& wstr)
popFrontWString(enc, h, s, old) ==
    LET oldBegin == s.begin
    IN  IF s.begin + 8 <= s.end
        THEN LET p1 == unsafePopFront(enc, h, s, 4)
                 sizeField == p1.out
             IN  IF FitsAfterW(p1.s.begin, sizeField, h.wchar, 4, p1.s.end)
                 THEN LET p2 == unsafePopFrontSpan(enc, h, p1.s, h.wchar, U32Nat(sizeField))
                          p3 == unsafePopFront(enc, h, p2.s, 4)
                          sizeCheck == p3.out
                      IN  IF sizeField = sizeCheck
                          THEN [s |-> p3.s, ret |-> FALSE, out |-> p2.out]
                          ELSE failFront(p3.s, oldBegin)
                 ELSE failFront(p1.s, oldBegin)
        ELSE failFront(s, oldBegin)

\* bool popBack(std::wstring& wstr)
popBackWString(enc, h, s, old) ==
    LET oldEnd == s.end
    IN  IF s.begin + 8 <= s.end
        THEN LET p1 == unsafePopBack(enc, h, s, 4)
                 sizeField == p1.out
             IN  IF FitsAfterW(p1.s.begin, sizeField, h.wchar, 4, p1.s.end)
                 THEN LET p2 == unsafePopBackSpan(enc, h, p1.s, h.wchar, U32Nat(sizeField))
                          p3 == unsafePopBack(enc, h, p2.s, 4)
                          sizeCheck == p3.out
                      IN  IF sizeField = sizeCheck
                          THEN [s |-> p3.s, ret |-> FALSE, out |-> p2.out]
                          ELSE failBack(p3.s, oldEnd)
                 ELSE failBack(p1.s, oldEnd)
        ELSE failBack(s, oldEnd)

\* A size_t count of bytes is an integer: n >= 0 stands for n, and -d for
\* 2^64 - d.  Added to a pointer, 2^64 - d overflows the address space:
\* the build either wraps the sum (ptr is d bytes below the pointer) or,
\* reasoning that pointer sums do not overflow, takes ptr to be past m_end.

\* BasicWriteBuffer::skip(size_t bytes): the buffers the call can leave
skip(s, bytes) ==
    LET ptr == s.begin + bytes
        wrapped == [s EXCEPT !.begin = IF ptr <= s.end THEN ptr ELSE s.end]
        clamped == [s EXCEPT !.begin = s.end]
    IN  IF bytes >= 0 THEN {wrapped} ELSE {wrapped, clamped}

\* a slip in skipFront: the new position is not compared with m_end
skipFrontNoClamp(s, bytes) ==
    {[s EXCEPT !.begin = s.begin + bytes]}

\* skipFront(size_t bytes): the buffers the call can leave
skipFront(s, bytes) ==
    LET ptr == s.begin + bytes
        wrapped == [s EXCEPT !.begin = IF ptr <= s.end THEN ptr ELSE s.end]
        clamped == [s EXCEPT !.begin = s.end]
    IN  IF bytes >= 0 THEN {wrapped} ELSE {wrapped, clamped}

\* skipBack(size_t bytes): the buffers the call can leave
skipBack(s, bytes) ==
    LET ptr == s.end - bytes
        wrapped == [s EXCEPT !.end = IF ptr >= s.begin THEN ptr ELSE s.begin]
        clamped == [s EXCEPT !.end = s.begin]
    IN  IF bytes >= 0 THEN {wrapped} ELSE {wrapped, clamped}

-----------------------------------------------------------------------------
(* std::vector<uint8_t> m_data and BasicVector<Encoding>.  A vector is the *)
(* record v = [size, data, cap]: m_size, the elements of m_data (so        *)
(* Len(v.data) is m_data.size()) and m_data.capacity().  h.growth names    *)
(* the standard library of the build.                                      *)

Max(a, b) == IF a >= b THEN a ELSE b
Min(a, b) == IF a <= b THEN a ELSE b

ZeroBytes(n) == [i \in 1..n |-> 0]

\* the capacity std::vector chooses when it must reallocate to hold n
\* elements
NewCapacity(h, v, n) ==
    CASE h.growth = "libstdc++" -> Max(2 * Len(v.data), n)
      [] h.growth = "libc++"    -> Max(2 * v.cap, n)
      [] h.growth = "msvc"      -> Max(v.cap + v.cap \div 2, n)

\* m_data.reserve(n)
DataReserve(v, n) == IF n > v.cap THEN [v EXCEPT !.cap = n] ELSE v

\* m_data.resize(n): elements past n are dropped, new elements are zero
DataResize(h, v, n) ==
    IF n <= Len(v.data)
    THEN [v EXCEPT !.data = SubSeq(v.data, 1, n)]
    ELSE [v EXCEPT !.data = v.data \o ZeroBytes(n - Len(v.data)),
                   !.cap = IF n > v.cap THEN NewCapacity(h, v, n) ELSE v.cap]

\* BasicVector(), BasicVector(size_t size)
VecNew(n) == [size |-> n, data |-> ZeroBytes(n), cap |-> n]

\* a moved-from std::vector: empty, its storage taken
MovedFrom == [size |-> 0, data |-> <<>>, cap |-> 0]

\* operator=(const BasicVector& other), this != &other
VecCopyAssign(h, v, other) ==
    LET v1 == DataResize(h, [v EXCEPT !.size = other.size], other.size)
    IN  IF other.size > 0
        THEN [v1 EXCEPT !.data = Memcpy(v1.data, 0, ReadBytes(other.data, 0, other.size))]
        ELSE v1

\* operator=(BasicVector&& other), this != &other: [v, other] after it
VecMoveAssign(v, other) ==
    [v |-> [size |-> other.size, data |-> other.data, cap |-> other.cap],
     other |-> MovedFrom]

\* a slip in clear(): the storage is released with the content
VecClearReleases(v) == [size |-> 0, data |-> <<>>, cap |-> 0]

\* clear()
VecClear(v) == [v EXCEPT !.size = 0]

\* reserve(size_t newCapacity)
VecReserve(h, v, newCapacity) ==
    LET v1 == DataReserve(v, newCapacity)
    IN  IF Len(v1.data) < newCapacity THEN DataResize(h, v1, newCapacity) ELSE v1

\* resize(size_t newSize)
VecResize(h, v, newSize) ==
    LET v1 == IF Len(v.data) < newSize THEN DataResize(h, v, newSize) ELSE v
    IN  [v1 EXCEPT !.size = newSize]

\* expandToCapacity(): [v, ret]
VecExpandToCapacity(h, v) ==
    LET v1 == DataResize(h, v, v.cap)
    IN  [v |-> [v1 EXCEPT !.size = v.cap], ret |-> v.cap]

\* the extra size above which reserveExtra reserves half as much again
LargeExtra == 1024

\* a slip in reserveExtra: the larger storage does not receive the bytes of
\* the old one
reserveExtraFresh(h, v, extraSize) ==
    LET requiredSize == v.size + extraSize
    IN  IF Len(v.data) < requiredSize
        THEN [v EXCEPT !.data = ZeroBytes(requiredSize),
                       !.cap = Max(v.cap, requiredSize)]
        ELSE v

\* a slip in reserveExtra: no growth factor for large requests
reserveExtraNoFactor(h, v, extraSize) ==
    LET requiredSize == v.size + extraSize
    IN  IF Len(v.data) < requiredSize THEN DataResize(h, v, requiredSize) ELSE v

\* reserveExtra(size_t extraSize)
reserveExtra(h, v, extraSize) ==
    LET requiredSize == v.size + extraSize
    IN  IF Len(v.data) < requiredSize
        THEN LET v1 == IF extraSize > LargeExtra
                       THEN DataReserve(v, requiredSize + requiredSize \div 2)
                       ELSE v
             IN  DataResize(h, v1, requiredSize)
        ELSE v

\* expandBy(size_t length)
VecExpandBy(h, v, length) ==
    LET v1 == reserveExtra(h, v, length)
    IN  [v1 EXCEPT !.size = v1.size + length]

\* a slip in shrinkBy: the request is not clamped to the size
VecShrinkByNoClamp(v, length) ==
    [v |-> [v EXCEPT !.size = v.size - length], ret |-> length]

\* a slip in shrinkBy: the storage is cut down to the new size
VecShrinkByTruncates(v, length) ==
    LET actualLength == IF length < v.size THEN length ELSE v.size
    IN  [v |-> [v EXCEPT !.size = v.size - actualLength,
                         !.data = SubSeq(v.data, 1, v.size - actualLength)],
         ret |-> actualLength]

\* size_t shrinkBy(size_t length): [v, ret]
VecShrinkBy(v, length) ==
    LET actualLength == IF length < v.size THEN length ELSE v.size
    IN  [v |-> [v EXCEPT !.size = v.size - actualLength], ret |-> actualLength]

\* basic_copy<Encoding>(void*, T), basic_copy<Encoding>(void*, span) and
\* basic_copy<Encoding>(T&, const void*): the bytes of each value in the
\* order Encoding, one value after another
StreamBytes(enc, value) == IF enc = "little" THEN value ELSE Reverse(value)
basic_copyToMem(enc, h, m, dest, value) == Memcpy(m, dest, StreamBytes(enc, value))
RECURSIVE basic_copySpanToMem(_, _, _, _, _, _)
basic_copySpanToMem(enc, h, m, dest, w, span) ==
    IF span = <<>> THEN m
    ELSE basic_copySpanToMem(enc, h, basic_copyToMem(enc, h, m, dest, Head(span)),
                             dest + w, w, Tail(span))
basic_copyFromMem(enc, h, m, src, w) == StreamBytes(enc, ReadBytes(m, src, w))

\* BasicVector::unsafePushBack(T value)
VecUnsafePushBack(enc, h, v, value) ==
    [v EXCEPT !.data = basic_copyToMem(enc, h, v.data, v.size, value),
              !.size = v.size + Len(value)]

\* a slip in pushBack(T): no room is made before the value is stored
VecPushBackNoReserve(enc, h, v, value) ==
    VecUnsafePushBack(enc, h, v, value)

\* BasicVector::pushBack(T value)
VecPushBack(enc, h, v, value) ==
    VecUnsafePushBack(enc, h, reserveExtra(h, v, Len(value)), value)

\* BasicVector::pushBack(const std::span<T, N>& span), sizeof(T) = w
VecPushBackSpan(enc, h, v, w, span) ==
    LET byteSize == w * Len(span)
        v1 == reserveExtra(h, v, byteSize)
    IN  [v1 EXCEPT !.data = basic_copySpanToMem(enc, h, v1.data, v1.size, w, span),
                   !.size = v1.size + byteSize]

\* calculateStringSize, calculateWideStringSize
calculateStringSize(str) == 4 + Len(str) + 4
calculateWideStringSize(h, wstr) == 4 + Len(wstr) * h.wchar + 4

\* BasicVector::pushBack(const std::string& str): the framed string is
\* written through a BasicWriteBuffer over the bytes added
VecPushBackString(enc, h, v, str) ==
    LET oldLength == v.size
        byteSize == calculateStringSize(str)
        v1 == VecExpandBy(h, v, byteSize)
        b0 == [mem |-> v1.data, begin |-> oldLength, end |-> oldLength + byteSize]
        b1 == unsafePushBack(enc, h, b0, NatBytes(Len(str), 4))
        b2 == IF str # <<>> THEN unsafePushBackSpan(enc, h, b1, 1, CharSpan(str)) ELSE b1
        b3 == unsafePushBack(enc, h, b2, NatBytes(Len(str), 4))
    IN  [v1 EXCEPT !.data = b3.mem]

\* BasicVector::pushBack(const std::wstring& wstr)
VecPushBackWString(enc, h, v, wstr) ==
    LET oldLength == v.size
        byteSize == calculateWideStringSize(h, wstr)
        v1 == VecExpandBy(h, v, byteSize)
        b0 == [mem |-> v1.data, begin |-> oldLength, end |-> oldLength + byteSize]
        b1 == unsafePushBack(enc, h, b0, NatBytes(Len(wstr), 4))
        b2 == IF wstr # <<>> THEN unsafePushBackSpan(enc, h, b1, h.wchar, wstr) ELSE b1
        b3 == unsafePushBack(enc, h, b2, NatBytes(Len(wstr), 4))
    IN  [v1 EXCEPT !.data = b3.mem]

\* BasicVector::pushBackRaw(const T& value): the object as the host holds it
VecPushBackRaw(h, v, value) ==
    LET oldLength == v.size
        v1 == VecExpandBy(h, v, Len(value))
    IN  [v1 EXCEPT !.data = Memcpy(v1.data, oldLength, ObjectBytes(h.native, value))]

\* BasicVector::unsafePopBack(T& value): [v, out]
VecUnsafePopBack(enc, h, v, w) ==
    [v |-> [v EXCEPT !.size = v.size - w],
     out |-> basic_copyFromMem(enc, h, v.data, v.size - w, w)]

\* bool BasicVector::popBack(T& value): [v, ret, out]
VecPopBack(enc, h, v, w, old) ==
    IF w <= v.size
    THEN [v |-> VecUnsafePopBack(enc, h, v, w).v, ret |-> FALSE,
          out |-> VecUnsafePopBack(enc, h, v, w).out]
    ELSE [v |-> v, ret |-> TRUE, out |-> old]

\* BasicReadBuffer(const_pointer begin, size_t size) over the bytes of m
ReadBufferOver(m, begin, n) == [mem |-> m, begin |-> begin, end |-> begin + n]

\* a slip in popBack(std::span<T, N>): the elements are taken off the end
\* one by one, the last one first
VecPopBackSpanLastFirst(enc, h, v, w, old) ==
    LET byteSize == w * Len(old)
        taken == unsafePopFrontSpan(enc, h,
                     ReadBufferOver(v.data, v.size - byteSize, byteSize), w, Len(old)).out
    IN  IF byteSize <= v.size
        THEN [v |-> [v EXCEPT !.size = v.size - byteSize], ret |-> FALSE,
              out |-> [i \in 1..Len(taken) |-> taken[Len(taken) + 1 - i]]]
        ELSE [v |-> v, ret |-> TRUE, out |-> old]

\* bool BasicVector::popBack(std::span<T, N> span)
VecPopBackSpan(enc, h, v, w, old) ==
    LET byteSize == w * Len(old)
    IN  IF byteSize <= v.size
        THEN [v |-> [v EXCEPT !.size = v.size - byteSize], ret |-> FALSE,
              out |-> unsafePopFrontSpan(enc, h,
                          ReadBufferOver(v.data, v.size - byteSize, byteSize),
                          w, Len(old)).out]
        ELSE [v |-> v, ret |-> TRUE, out |-> old]

\* a slip in popBack(std::string&): m_size is not updated on success
VecPopBackStringKeepsSize(enc, h, v, old) ==
    LET r == popBackString(enc, h, ReadBufferOver(v.data, 0, v.size), old)
    IN  [v |-> v, ret |-> r.ret, out |-> r.out]

\* bool BasicVector::popBack(std::string& str)
VecPopBackString(enc, h, v, old) ==
    LET r == popBackString(enc, h, ReadBufferOver(v.data, 0, v.size), old)
    IN  IF ~r.ret
        THEN [v |-> [v EXCEPT !.size = size(r.s)], ret |-> FALSE, out |-> r.out]
        ELSE [v |-> v, ret |-> TRUE, out |-> r.out]

\* bool BasicVector::popBack(std::wstring& wstr)
VecPopBackWString(enc, h, v, old) ==
    LET r == popBackWString(enc, h, ReadBufferOver(v.data, 0, v.size), old)
    IN  IF ~r.ret
        THEN [v |-> [v EXCEPT !.size = size(r.s)], ret |-> FALSE, out |-> r.out]
        ELSE [v |-> v, ret |-> TRUE, out |-> r.out]

\* bool BasicVector::popBackRaw(T& value), sizeof(T) = w
VecPopBackRaw(h, v, w, old) ==
    IF w <= v.size
    THEN [v |-> [v EXCEPT !.size = v.size - w], ret |-> FALSE,
          out |-> ValueOf(h.native, ReadBytes(v.data, v.size - w, w))]
    ELSE [v |-> v, ret |-> TRUE, out |-> old]

\* a slip in popBackBuffer: the view is taken before the size is lowered,
\* at the old logical end
popBackBufferBeforeShrink(v, length) ==
    [v |-> VecShrinkBy(v, length).v, view |-> ReadBufferOver(v.data, v.size, length)]

\* a slip in popBackBuffer: the view starts at the logical end as it was
\* before the call
popBackBufferOldEnd(v, length) ==
    LET r == VecShrinkBy(v, length)
    IN  [v |-> r.v, view |-> ReadBufferOver(r.v.data, v.size, r.ret)]

\* ReadBuffer Vector::popBackBuffer(size_t Len): [v, view]
popBackBuffer(v, length) ==
    LET r == VecShrinkBy(v, length)
    IN  [v |-> r.v, view |-> ReadBufferOver(r.v.data, r.v.size, r.ret)]

\* std::memcmp(a, b, n): the sign of the first difference
memcmp(a, b, n) ==
    LET d == {i \in 1..n : ReadBytes(a, 0, n)[i] # ReadBytes(b, 0, n)[i]}
    IN  IF d = {} THEN 0
        ELSE LET i == CHOOSE j \in d : \A k \in d : j <= k
             IN  IF a[i] < b[i] THEN 0 - 1 ELSE 1

\* a slip in operator==: the whole storage is compared
VecEqWholeStorage(lhs, rhs) ==
    IF Len(lhs.data) = Len(rhs.data)
    THEN memcmp(lhs.data, rhs.data, Len(lhs.data)) = 0
    ELSE FALSE

\* friend bool operator==(const Vector& lhs, const Vector& rhs)
VecEq(lhs, rhs) ==
    IF lhs.size = rhs.size
    THEN memcmp(lhs.data, rhs.data, lhs.size) = 0
    ELSE FALSE

\* friend bool operator!=(const Vector& lhs, const Vector& rhs)
VecNe(lhs, rhs) == ~VecEq(lhs, rhs)

-----------------------------------------------------------------------------
(* ByteArray<N>: a fixed array of N bytes derived from a string.  A        *)
(* uint64_t is its eight bytes, least significant first; m_bytes is a      *)
(* sequence of N bytes.                                                    *)

\* a byte widened to uint64_t
U64(b) == [i \in 1..8 |-> IF i = 1 THEN b ELSE 0]

\* the sum of a[i] * b[k + 1 - i] for i in 1..j: one column of a product
RECURSIVE MulColumn(_, _, _, _)
MulColumn(a, b, k, j) ==
    IF j = 0 THEN 0 ELSE a[j] * b[k + 1 - j] + MulColumn(a, b, k, j - 1)

\* bytes k..8 of a * b, carry coming in from the columns below k
RECURSIVE MulFrom(_, _, _, _)
MulFrom(a, b, k, carry) ==
    IF k > 8 THEN <<>>
    ELSE LET column == MulColumn(a, b, k, k) + carry
         IN  <<column % 256>> \o MulFrom(a, b, k + 1, column \div 256)

\* a * b on uint64_t
Mul64(a, b) == MulFrom(a, b, 1, 0)

\* HashPrime{ 1099511628211ULL } = 0x00000100000001B3
HashPrime == <<179, 1, 0, 0, 0, 1, 0, 0>>

\* HashInit{ 14695981039346656037ULL } = 0xCBF29CE484222325
HashInit == <<37, 35, 34, 132, 228, 156, 242, 203>>

\* computeNextHash(uint64_t currentHash, uint64_t nextByte)
computeNextHash(currentHash, nextByte) ==
    Mul64(Xor(currentHash, nextByte), HashPrime)

\* the loops of computeHash: m_bytes[index] .. m_bytes[maxIndex - 1] taken
\* into hash one after the other
RECURSIVE HashRange(_, _, _, _)
HashRange(m, hash, index, maxIndex) ==
    IF index < maxIndex
    THEN HashRange(m, computeNextHash(hash, U64(m[index + 1])), index + 1, maxIndex)
    ELSE hash

\* computeHash(uint64_t initialHash, uint64_t maxIndex)
computeHash(m, initialHash, maxIndex) ==
    IF maxIndex <= 8 THEN HashRange(m, initialHash, 0, maxIndex)
    ELSE LET bulkEnd == maxIndex - (maxIndex % 8)
         IN  HashRange(m, HashRange(m, initialHash, 0, bulkEnd), bulkEnd, maxIndex)

\* generateHash()
generateHash(m) == computeHash(m, U64(0), Len(m))

\* toString(size_t count)
toStringCount(m, count) == SubSeq(m, 1, Min(count, Len(m)))

\* the loop of toString(): the first position from nullPos on that holds a
\* null byte, or N
RECURSIVE FirstNull(_, _)
FirstNull(m, nullPos) ==
    IF nullPos < Len(m) /\ m[nullPos + 1] # 0 THEN FirstNull(m, nullPos + 1)
    ELSE nullPos

\* a slip in toString(): the whole array is converted
toStringWhole(m) == toStringCount(m, Len(m))

\* toString()
toString(m) == toStringCount(m, FirstNull(m, 0))

\* the loop body both branches of fillHead(const std::string&) share: the
\* characters of chars in order, the non-zero ones stored, until N are stored
RECURSIVE fillHeadLoop(_, _, _)
fillHeadLoop(m, chars, index) ==
    IF chars = <<>> THEN [m |-> m, index |-> index]
    ELSE IF Head(chars) # 0
    THEN LET stored == [m EXCEPT ![index + 1] = Head(chars)]
         IN  IF index + 1 = Len(m) THEN [m |-> stored, index |-> index + 1]
             ELSE fillHeadLoop(stored, Tail(chars), index + 1)
    ELSE fillHeadLoop(m, Tail(chars), index)

\* fillHead(const std::string& str): the array and the number of bytes filled
fillHead(m, str) ==
    IF Len(str) <= Len(m) THEN fillHeadLoop(m, str, 0)
    ELSE fillHeadLoop(m, SubSeq(str, 1, Len(m)), 0)

\* the padding loop of fillTail
RECURSIVE fillTailLoop(_, _, _)
fillTailLoop(m, filledBytes, hashValue) ==
    IF filledBytes < Len(m)
    THEN LET next == computeNextHash(hashValue, U64(m[(filledBytes % Len(m)) + 1]))
         IN  fillTailLoop([m EXCEPT ![filledBytes + 1] = next[1]], filledBytes + 1, next)
    ELSE [m |-> m, ret |-> hashValue]

\* fillTail(uint64_t filledBytes): the array and the hash returned
fillTail(m, filledBytes) ==
    IF filledBytes = 0 THEN [m |-> [i \in 1..Len(m) |-> 0], ret |-> U64(0)]
    ELSE LET hashValue == computeHash(m, HashInit, filledBytes)
         IN  IF filledBytes < Len(m)
             THEN fillTailLoop([m EXCEPT ![filledBytes + 1] = 0], filledBytes + 1, hashValue)
             ELSE fillTailLoop(m, filledBytes, hashValue)

\* fill(const std::string& str) on a ByteArray<N>
fill(N, str) ==
    LET head == fillHead([i \in 1..N |-> 0], str)
    IN  fillTail(head.m, head.index)

\* a slip in operator=(const std::string&): the array is not cleared before
\* it is filled
assignStringNoClear(m, str) ==
    LET head == fillHead(m, str)
    IN  fillTail(head.m, head.index)

\* operator=(const std::string& str) on an array holding m: fill(str), whose
\* memset clears what the array held
assignString(m, str) ==
    LET head == fillHead([i \in 1..Len(m) |-> 0], str)
    IN  fillTail(head.m, head.index)

-----------------------------------------------------------------------------
(* Inputs.                                                                 *)

\* the builds: native byte order, byte swap primitive selected by the
\* preprocessor, sizeof(wchar_t)
Hosts ==
    { [native |-> "little", impl |-> "intrinsic", wchar |-> 2],
      [native |-> "little", impl |-> "intrinsic", wchar |-> 4],
      [native |-> "big",    impl |-> "intrinsic", wchar |-> 4],
      [native |-> "big",    impl |-> "fallback",  wchar |-> 2] }

\* the builds of the reading client: both byte orders, both swap
\* primitives, both widths of wchar_t
ReadHosts == {h \in Hosts : h.wchar = 4 <=> h.native = "little"}

Widths == {1, 2, 4, 8}

\* 0x9ABCDEF012345678 and its low 1, 2 and 4 bytes (0x12345678), and 1
PatternBytes == <<120, 86, 52, 18, 240, 222, 188, 154>>
Pattern(w) == [i \in 1..w |-> PatternBytes[i]]
Unit(w) == [i \in 1..w |-> IF i = 1 THEN 1 ELSE 0]
SampleValues(w) == {Pattern(w), Unit(w)}

\* the span of n elements of width w: Pattern, Unit, Pattern, ...
SampleSpan(w, n) == [i \in 1..n |-> IF i % 2 = 1 THEN Pattern(w) ELSE Unit(w)]

\* narrow strings: every string of 'h' and 'e' up to MaxStrLen, and "hello"
Chars == {104, 101}
Hello == <<104, 101, 108, 108, 111>>
Strings == UNION {[1..n -> Chars] : n \in 0..MaxStrLen} \cup {Hello}

\* wide strings of the host: up to MaxStrLen characters
WStrings(h) == {SampleSpan(h.wchar, n) : n \in 0..MaxStrLen}

\* what the caller's array holds at first: zeros, or the frame of "hello"
\* with its trailing length changed to 6
Zeros == [i \in 1..MemLen |-> 0]
HelloCorrupt ==
    [i \in 1..MemLen |->
        IF i <= 13 THEN (<<5, 0, 0, 0>> \o Hello \o <<6, 0, 0, 0>>)[i] ELSE 0]
InitImages == {Zeros, HelloCorrupt}

\* the frame of "hello" followed by 0x12345678 and zeros
HelloFrame ==
    [i \in 1..MemLen |->
        IF i <= 13 THEN (<<5, 0, 0, 0>> \o Hello \o <<5, 0, 0, 0>>)[i]
        ELSE IF i = 14 THEN 120 ELSE IF i = 15 THEN 86 ELSE IF i = 16 THEN 52 ELSE 0]
ReadImages == {Zeros, HelloFrame}

\* byte counts passed to the skips: none, one, more than the array holds,
\* and 2^64 - 1
SkipCounts == {0, 1, MemLen + 1, -1}

\* the values the byteSwap driver swaps
SwapByteSample == <<18, 255, 128, 0, 86>>
SwapBytes == {SwapByteSample[i] : i \in 1..NumSwapBytes}
SwapInputs == UNION {[1..w -> SwapBytes] : w \in Widths} \cup {Pattern(4)}

-----------------------------------------------------------------------------
(* The state machine.                                                      *)

NoCall ==
    [op |-> "none", ret |-> FALSE, w |-> 0, arg |-> <<>>, old |-> <<>>,
     out |-> <<>>, pre |-> <<>>]

IdleSwap == [stage |-> "idle", kind |-> "int", value |-> <<>>, once |-> <<>>, twice |-> <<>>]

\* no std::vector storage: size 0, capacity 0
EmptyVector == [size |-> 0, data |-> <<>>, cap |-> 0]

NoVCall == [op |-> "none"]

IdleKey ==
    [stage |-> "idle", n |-> 0, str |-> <<>>, bytes |-> <<>>, hash |-> U64(0),
     whole |-> U64(0), text |-> <<>>]

\* the parts of the state a driver does not use
NoBuffers ==
    /\ mem = Zeros
    /\ wb = [begin |-> 0, end |-> 0]
    /\ rb = [begin |-> 0, end |-> 0]
    /\ rb0 = [begin |-> 0, end |-> 0]
    /\ lastW = NoCall
    /\ lastR = NoCall
    /\ stage = "idle"
    /\ ub = FALSE

NoVectors ==
    /\ va = EmptyVector
    /\ vb = EmptyVector
    /\ lastV = NoVCall
    /\ hist = <<>>

\* The client owns an array, zero-filled or holding the corrupted frame,
\* and has constructed a WriteBuffer and a ReadBuffer over its first n
\* bytes; it then serializes at most one item and deserializes at most one.
Init ==
    /\ host \in Hosts
    /\ sw = IdleSwap
    /\ \E n \in 0..(MemLen - GuardLen) :
          /\ mem \in {m \in InitImages : m = Zeros \/ n = 13}
          /\ wb = [begin |-> 0, end |-> n]
          /\ rb = [begin |-> 0, end |-> n]
    /\ rb0 = rb
    /\ lastW = NoCall
    /\ lastR = NoCall
    /\ stage = "constructed"
    /\ ub = FALSE
    /\ NoVectors
    /\ key = IdleKey

WState == [mem |-> mem, begin |-> wb.begin, end |-> wb.end]
RState == [mem |-> mem, begin |-> rb.begin, end |-> rb.end]
Pre == [mem |-> mem, wb |-> wb, rb |-> rb]

CanWrite == stage = "constructed" /\ ~ub
CanRead == stage \in {"constructed", "written", "reading"} /\ ~ub

\* the effect of a call on the write buffer that returned r = [s, ret]
Wrote(r, op, w, arg) ==
    /\ mem' = r.s.mem
    /\ wb' = [begin |-> r.s.begin, end |-> r.s.end]
    /\ ub' = (r.s.begin > MemLen)
    /\ lastW' = [op |-> op, ret |-> r.ret, w |-> w, arg |-> arg, old |-> <<>>,
                 out |-> <<>>, pre |-> Pre]
    /\ stage' = "written"
    /\ UNCHANGED <<host, sw, rb, lastR, rb0, key>>
    /\ UNCHANGED vecVars

\* the effect of a call on the read buffer that returned r = [s, ret, out]
DidRead(r, op, w, old) ==
    /\ rb' = [begin |-> r.s.begin, end |-> r.s.end]
    /\ ub' = (r.s.begin > MemLen \/ r.s.end < 0 \/ r.s.begin < 0 \/ r.s.end > MemLen)
    /\ lastR' = [op |-> op, ret |-> r.ret, w |-> w, arg |-> <<>>, old |-> old,
                 out |-> r.out, pre |-> Pre]
    /\ stage' = IF stage = "reading" THEN "reading" ELSE "read"
    /\ UNCHANGED <<host, sw, mem, wb, lastW, rb0, key>>
    /\ UNCHANGED vecVars

WPushBack ==
    /\ CanWrite
    /\ \E w \in Widths : \E value \in SampleValues(w) :
          Wrote(pushBack(stream_endian, host, WState, value), "pushBack", w, value)

WPushBackSpan ==
    /\ CanWrite
    /\ \E w \in Widths : \E n \in 0..MaxSpanLen :
          Wrote(pushBackSpan(stream_endian, host, WState, w, SampleSpan(w, n)),
                "pushBackSpan", w, SampleSpan(w, n))

\* pushBackSome: the count returned is kept in lastW.out
WPushBackSome ==
    /\ CanWrite
    /\ \E w \in Widths : \E n \in 0..(MaxSpanLen + 1) :
          LET r == pushBackSome(stream_endian, host, WState, w, SampleSpan(w, n))
          IN  /\ mem' = r.s.mem
              /\ wb' = [begin |-> r.s.begin, end |-> r.s.end]
              /\ ub' = (r.s.begin > MemLen)
              /\ lastW' = [op |-> "pushBackSome", ret |-> FALSE, w |-> w,
                           arg |-> SampleSpan(w, n), old |-> <<>>,
                           out |-> <<r.ret>>, pre |-> Pre]
              /\ stage' = "written"
              /\ UNCHANGED <<host, sw, rb, lastR, rb0, key>>
              /\ UNCHANGED vecVars

WPushBackString ==
    /\ CanWrite
    /\ \E str \in Strings :
          Wrote(pushBackString(stream_endian, host, WState, str),
                "pushBackString", 1, str)

WPushBackWString ==
    /\ CanWrite
    /\ \E wstr \in WStrings(host) :
          Wrote(pushBackWString(stream_endian, host, WState, wstr),
                "pushBackWString", host.wchar, wstr)

RPopFront ==
    /\ CanRead
    /\ \E w \in Widths : \E old \in SampleValues(w) :
          DidRead(popFront(stream_endian, host, RState, w, old), "popFront", w, old)

RPopBack ==
    /\ CanRead
    /\ \E w \in Widths : \E old \in SampleValues(w) :
          DidRead(popBack(stream_endian, host, RState, w, old), "popBack", w, old)

RPopFrontSpan ==
    /\ CanRead
    /\ \E w \in Widths : \E n \in 0..MaxSpanLen :
          DidRead(popFrontSpan(stream_endian, host, RState, w, SampleSpan(w, n)),
                  "popFrontSpan", w, SampleSpan(w, n))

RPopBackSpan ==
    /\ CanRead
    /\ \E w \in Widths : \E n \in 0..MaxSpanLen :
          DidRead(popBackSpan(stream_endian, host, RState, w, SampleSpan(w, n)),
                  "popBackSpan", w, SampleSpan(w, n))

RPopFrontString ==
    /\ CanRead
    /\ \E old \in {<<>>, Hello} :
          DidRead(popFrontString(stream_endian, host, RState, old),
                  "popFrontString", 1, old)

RPopBackString ==
    /\ CanRead
    /\ \E old \in {<<>>, Hello} :
          DidRead(popBackString(stream_endian, host, RState, old),
                  "popBackString", 1, old)

Next ==
    \/ WPushBack
    \/ WPushBackSpan
    \/ WPushBackSome
    \/ WPushBackString
    \/ WPushBackWString
    \/ RPopFront
    \/ RPopBack
    \/ RPopFrontSpan
    \/ RPopBackSpan
    \/ RPopFrontString
    \/ RPopBackString

Spec == Init /\ [][Next]_vars

-----------------------------------------------------------------------------
(* The reading client: a ReadBuffer over the whole array, then any        *)
(* sequence of safe reads and skips.                                       *)

InitRead ==
    /\ host \in ReadHosts
    /\ sw = IdleSwap
    /\ mem \in ReadImages
    /\ wb = [begin |-> 0, end |-> 0]
    /\ rb = [begin |-> 0, end |-> MemLen - GuardLen]
    /\ rb0 = rb
    /\ lastW = NoCall
    /\ lastR = NoCall
    /\ stage = "reading"
    /\ ub = FALSE
    /\ NoVectors
    /\ key = IdleKey

RPopFrontWString ==
    /\ CanRead
    /\ DidRead(popFrontWString(stream_endian, host, RState, <<>>),
               "popFrontWString", host.wchar, <<>>)

RPopBackWString ==
    /\ CanRead
    /\ DidRead(popBackWString(stream_endian, host, RState, <<>>),
               "popBackWString", host.wchar, <<>>)

RSkipFront ==
    /\ CanRead
    /\ \E bytes \in SkipCounts : \E s \in skipFront(RState, bytes) :
          DidRead([s |-> s, ret |-> FALSE, out |-> <<>>], "skipFront", bytes, <<>>)

RSkipBack ==
    /\ CanRead
    /\ \E bytes \in SkipCounts : \E s \in skipBack(RState, bytes) :
          DidRead([s |-> s, ret |-> FALSE, out |-> <<>>], "skipBack", bytes, <<>>)

NextRead ==
    \/ RPopFront
    \/ RPopBack
    \/ RPopFrontSpan
    \/ RPopBackSpan
    \/ RPopFrontString
    \/ RPopBackString
    \/ RPopFrontWString
    \/ RPopBackWString
    \/ RSkipFront
    \/ RSkipBack

SpecRead == InitRead /\ [][NextRead]_vars

-----------------------------------------------------------------------------
(* The skipping client: a write buffer and a read buffer over the array,   *)
(* one skip on the first and then one on the second.                       *)

WSkip ==
    /\ CanWrite
    /\ \E bytes \in SkipCounts : \E s \in skip(WState, bytes) :
          Wrote([s |-> s, ret |-> FALSE], "skip", bytes, <<>>)

NextSkip ==
    \/ WSkip
    \/ RSkipFront
    \/ RSkipBack

SpecSkip == Init /\ [][NextSkip]_vars

-----------------------------------------------------------------------------
(* The vector client: a Vector va, constructed empty or with a size, and   *)
(* any sequence of its operations; vb is a second Vector that va is        *)
(* assigned from.                                                          *)

\* the builds of the vector client: byte order, swap primitive, width of
\* wchar_t and standard library
VecHosts ==
    { [native |-> "little", impl |-> "intrinsic", wchar |-> 4, growth |-> "libstdc++"],
      [native |-> "little", impl |-> "intrinsic", wchar |-> 2, growth |-> "msvc"],
      [native |-> "big",    impl |-> "fallback",  wchar |-> 4, growth |-> "libc++"] }

\* the Vector holding the raw bytes 1, 0 with a stale 1 behind them
SourceVector(h) ==
    VecShrinkBy(VecPushBackRaw(h, VecPushBackRaw(h, VecPushBackRaw(h,
        VecNew(0), <<1>>), <<0>>), <<1>>), 1).v

\* the arguments of the vector client are made of the bytes 0 and 1: the
\* number 1 at each width, spans of the 16-bit 1, the strings "" and "\x01"
VecValues == {Unit(1), Unit(2), Unit(4)}
VecSpan(n) == [i \in 1..n |-> Unit(2)]
VecStrings == {<<>>, <<1>>}
VecWidths == {1, 2, 4}
\* byte counts: none, a few, more than a Vector holds, and a very large one
VecCounts == {0, 1, 2, MaxVecSize + 1, 2147483647}
VecSizes == {0, 1, MaxVecSize}

InitVec ==
    /\ host \in VecHosts
    /\ sw = IdleSwap
    /\ NoBuffers
    /\ va \in {VecNew(0), VecNew(2)}
    /\ vb = SourceVector(host)
    /\ lastV = NoVCall
    /\ hist = <<>>
    /\ key = IdleKey

\* The client keeps its vectors small.  A call that stores bytes is made
\* on a Vector of at most MaxVecSize bytes of storage and leaves it so; a
\* framed string is appended to a Vector of size 0 only; any other call
\* may not grow the storage past MaxVecSize or what it already is.
Small(v) == Len(v.data) <= MaxVecSize
CanStore(v) == Small(va) /\ Small(v)
CanFrame(v) == va.size = 0
CanKeep(v) == Len(v.data) <= Max(MaxVecSize, Len(va.data))

\* the effect of a call on va that left it as v
VDid(op, n, arg, v, ret, out, view) ==
    /\ va' = v
    /\ lastV' = [op |-> op, n |-> n, arg |-> arg, ret |-> ret, out |-> out,
                 view |-> view]
    /\ UNCHANGED <<host, sw, key, hist>>
    /\ UNCHANGED bufVars

NoView == [mem |-> <<>>, begin |-> 0, end |-> 0]

VClear ==
    /\ CanKeep(VecClear(va))
    /\ VDid("clear", 0, <<>>, VecClear(va), FALSE, <<>>, NoView) /\ UNCHANGED vb

VReserve ==
    \E n \in VecSizes :
        /\ CanKeep(VecReserve(host, va, n))
        /\ VDid("reserve", n, <<>>, VecReserve(host, va, n), FALSE, <<>>, NoView)
        /\ UNCHANGED vb

VResize ==
    \E n \in VecSizes :
        /\ CanKeep(VecResize(host, va, n))
        /\ VDid("resize", n, <<>>, VecResize(host, va, n), FALSE, <<>>, NoView)
        /\ UNCHANGED vb

VExpandBy ==
    \E n \in {0, 1, 3} :
        /\ CanKeep(VecExpandBy(host, va, n))
        /\ VDid("expandBy", n, <<>>, VecExpandBy(host, va, n), FALSE, <<>>, NoView)
        /\ UNCHANGED vb

VExpandToCapacity ==
    LET r == VecExpandToCapacity(host, va)
    IN  CanKeep(r.v) /\ VDid("expandToCapacity", 0, <<>>, r.v, r.ret, <<>>, NoView) /\ UNCHANGED vb

VShrinkBy ==
    \E n \in VecCounts :
        LET r == VecShrinkBy(va, n)
        IN  CanKeep(r.v) /\ VDid("shrinkBy", n, <<>>, r.v, r.ret, <<>>, NoView) /\ UNCHANGED vb

VPushBack ==
    \E value \in VecValues :
        /\ CanStore(VecPushBack(stream_endian, host, va, value))
        /\ VDid("pushBack", Len(value), value,
             VecPushBack(stream_endian, host, va, value), FALSE, <<>>, NoView)
        /\ UNCHANGED vb

VPushBackSpan ==
    \E n \in 0..MaxSpanLen :
        /\ CanStore(VecPushBackSpan(stream_endian, host, va, 2, VecSpan(n)))
        /\ VDid("pushBackSpan", 2, VecSpan(n),
             VecPushBackSpan(stream_endian, host, va, 2, VecSpan(n)),
             FALSE, <<>>, NoView)
        /\ UNCHANGED vb

VPushBackString ==
    \E str \in VecStrings :
        /\ CanFrame(va)
        /\ VDid("pushBackString", 1, str,
             VecPushBackString(stream_endian, host, va, str), FALSE, <<>>, NoView)
        /\ UNCHANGED vb

VPushBackWString ==
    /\ CanFrame(va)
    /\ VDid("pushBackWString", host.wchar, <<>>,
         VecPushBackWString(stream_endian, host, va, <<>>), FALSE, <<>>, NoView)
    /\ UNCHANGED vb

VPushBackRaw ==
    /\ CanStore(VecPushBackRaw(host, va, Unit(2)))
    /\ VDid("pushBackRaw", 2, Unit(2),
         VecPushBackRaw(host, va, Unit(2)), FALSE, <<>>, NoView)
    /\ UNCHANGED vb

VPopBack ==
    \E w \in VecWidths :
        LET r == VecPopBack(stream_endian, host, va, w, Unit(w))
        IN  CanKeep(r.v) /\ VDid("popBack", w, Unit(w), r.v, r.ret, r.out, NoView) /\ UNCHANGED vb

VPopBackSpan ==
    \E n \in 0..MaxSpanLen :
        LET r == VecPopBackSpan(stream_endian, host, va, 2, VecSpan(n))
        IN  CanKeep(r.v) /\ VDid("popBackSpan", 2, VecSpan(n), r.v, r.ret, r.out, NoView)
            /\ UNCHANGED vb

VPopBackString ==
    LET r == VecPopBackString(stream_endian, host, va, Hello)
    IN  CanKeep(r.v) /\ VDid("popBackString", 1, Hello, r.v, r.ret, r.out, NoView) /\ UNCHANGED vb

VPopBackWString ==
    LET r == VecPopBackWString(stream_endian, host, va, <<>>)
    IN  CanKeep(r.v) /\ VDid("popBackWString", host.wchar, <<>>, r.v, r.ret, r.out, NoView)
        /\ UNCHANGED vb

VPopBackRaw ==
    LET r == VecPopBackRaw(host, va, 2, Unit(2))
    IN  CanKeep(r.v) /\ VDid("popBackRaw", 2, Unit(2), r.v, r.ret, r.out, NoView) /\ UNCHANGED vb

VPopBackBuffer ==
    \E n \in VecCounts :
        LET r == popBackBuffer(va, n)
        IN  CanKeep(r.v) /\ VDid("popBackBuffer", n, <<>>, r.v, FALSE, <<>>, r.view) /\ UNCHANGED vb

\* va = vb
VCopyAssign ==
    /\ CanStore(VecCopyAssign(host, va, vb))
    /\ VDid("copyAssign", 0, <<>>, VecCopyAssign(host, va, vb), FALSE, <<>>, NoView)
    /\ UNCHANGED vb

\* va = std::move(vb)
VMoveAssign ==
    LET r == VecMoveAssign(va, vb)
    IN  CanKeep(r.v) /\ VDid("moveAssign", 0, <<>>, r.v, FALSE, <<>>, NoView) /\ vb' = r.other

NextVec ==
    \/ VClear
    \/ VReserve
    \/ VResize
    \/ VExpandBy
    \/ VExpandToCapacity
    \/ VShrinkBy
    \/ VPushBack
    \/ VPushBackSpan
    \/ VPushBackString
    \/ VPushBackWString
    \/ VPushBackRaw
    \/ VPopBack
    \/ VPopBackSpan
    \/ VPopBackString
    \/ VPopBackWString
    \/ VPopBackRaw
    \/ VPopBackBuffer
    \/ VCopyAssign
    \/ VMoveAssign

SpecVec == InitVec /\ [][NextVec]_vars

-----------------------------------------------------------------------------
(* The growing client: a small Vector that is expanded and shrunk by small *)
(* and by large counts and has values appended.                            *)

GrowthCounts == {0, 1, 2, LargeExtra, LargeExtra + 1}

\* a step the growing client takes: storage stays small, or a small vector
\* takes one large step, or a large one is moved by a large count
CanGrow(v, n) ==
    \/ Len(v.data) <= MaxVecSize
    \/ n >= LargeExtra /\ (Small(va) \/ Len(v.data) = Len(va.data))

PExpandBy ==
    \E n \in GrowthCounts :
        /\ CanGrow(VecExpandBy(host, va, n), n)
        /\ VDid("expandBy", n, <<>>, VecExpandBy(host, va, n), FALSE, <<>>, NoView)
        /\ UNCHANGED vb

PShrinkBy ==
    \E n \in GrowthCounts :
        /\ CanGrow(VecShrinkBy(va, n).v, n)
        /\ VDid("shrinkBy", n, <<>>, VecShrinkBy(va, n).v, FALSE, <<>>, NoView)
        /\ UNCHANGED vb

PPushBack ==
    \E value \in VecValues :
        /\ CanStore(VecPushBack(stream_endian, host, va, value))
        /\ VDid("pushBack", Len(value), value,
             VecPushBack(stream_endian, host, va, value), FALSE, <<>>, NoView)
        /\ UNCHANGED vb

NextPolicy ==
    \/ PExpandBy
    \/ PShrinkBy
    \/ PPushBack

SpecPolicy == InitVec /\ [][NextPolicy]_vars

-----------------------------------------------------------------------------
(* The stacking client: items pushed onto a Vector, then popped in the     *)
(* reverse order, each with the type it was pushed with.  hist is the      *)
(* stack of the items on the vector; vb keeps the vector as constructed.   *)

\* an item is the sequence of its elements: the one value, the elements of
\* the span, the characters of the string
Item(kind, w, elements) == [kind |-> kind, w |-> w, value |-> elements]

LifoItems ==
    { Item("value", 1, <<Pattern(1)>>), Item("value", 2, <<Pattern(2)>>),
      Item("value", 4, <<Pattern(4)>>),
      Item("span", 1, SampleSpan(1, 1)), Item("span", 2, SampleSpan(2, 2)),
      Item("string", 1, CharSpan(<<>>)), Item("string", 1, CharSpan(<<104>>)),
      Item("string", 1, CharSpan(<<104, 101>>)) }

\* the vector after the push of an item
PushItem(h, v, item) ==
    CASE item.kind = "value" -> VecPushBack(stream_endian, h, v, item.value[1])
      [] item.kind = "span" -> VecPushBackSpan(stream_endian, h, v, item.w, item.value)
      [] item.kind = "string" ->
            VecPushBackString(stream_endian, h, v, SpanChars(item.value))

\* popBack into a destination of the type of the item: a zero value, a span
\* of as many zero elements, an empty string
PopItem(h, v, item) ==
    CASE item.kind = "value" ->
            VecPopBack(stream_endian, h, v, item.w, [i \in 1..item.w |-> 0])
      [] item.kind = "span" ->
            VecPopBackSpan(stream_endian, h, v, item.w,
                           [k \in 1..Len(item.value) |-> [i \in 1..item.w |-> 0]])
      [] item.kind = "string" -> VecPopBackString(stream_endian, h, v, <<>>)

InitLifo ==
    /\ host \in VecHosts
    /\ sw = IdleSwap
    /\ NoBuffers
    /\ va \in {VecNew(0), VecNew(2)}
    /\ vb = va
    /\ lastV = NoVCall
    /\ hist = <<>>
    /\ key = IdleKey

LPush ==
    \E item \in LifoItems :
        /\ lastV.op # "pop"
        /\ Len(hist) < MaxLifoDepth
        /\ va' = PushItem(host, va, item)
        /\ hist' = Append(hist, item)
        /\ lastV' = [op |-> "push", item |-> item, ret |-> FALSE, out |-> <<>>]
        /\ UNCHANGED <<host, sw, key, vb>>
        /\ UNCHANGED bufVars

LPop ==
    /\ hist # <<>>
    /\ LET item == hist[Len(hist)]
           r == PopItem(host, va, item)
       IN  /\ va' = r.v
           /\ hist' = SubSeq(hist, 1, Len(hist) - 1)
           /\ lastV' = [op |-> "pop", item |-> item, ret |-> r.ret,
                        out |-> CASE item.kind = "value" -> <<r.out>>
                                  [] item.kind = "span" -> r.out
                                  [] item.kind = "string" -> CharSpan(r.out)]
    /\ UNCHANGED <<host, sw, key, vb>>
    /\ UNCHANGED bufVars

NextLifo == LPush \/ LPop

SpecLifo == InitLifo /\ [][NextLifo]_vars

-----------------------------------------------------------------------------
(* The restoring client: a Vector built from raw bytes, then shrunk and    *)
(* expanded by the same count, or cleared and resized to its old size.  vb *)
(* keeps the vector as it was before the shrink or the clear.              *)

InitRestore ==
    /\ host \in VecHosts
    /\ sw = IdleSwap
    /\ NoBuffers
    /\ va = VecNew(0)
    /\ vb = VecNew(0)
    /\ lastV = NoVCall
    /\ hist = <<>>
    /\ key = IdleKey

\* the effect of a call that left va as v and the kept vector as kept
TDid(op, n, v, kept) ==
    /\ va' = v
    /\ vb' = kept
    /\ lastV' = [op |-> op, n |-> n]
    /\ UNCHANGED <<host, sw, key, hist>>
    /\ UNCHANGED bufVars

TBuild ==
    /\ lastV.op \in {"none", "build"}
    /\ \/ \E byte \in {<<1>>, <<2>>} :
             /\ va.size < MaxVecSize
             /\ TDid("build", 1, VecPushBackRaw(host, va, byte), vb)
       \/ /\ va.cap < MaxVecSize + 1
          /\ TDid("build", 0, VecReserve(host, va, MaxVecSize + 1), vb)

TShrinkBy ==
    /\ lastV.op \in {"none", "build"}
    /\ \E k \in 0..va.size : TDid("shrinkBy", k, VecShrinkBy(va, k).v, va)

TExpandBy ==
    /\ lastV.op = "shrinkBy"
    /\ TDid("expandBy", lastV.n, VecExpandBy(host, va, lastV.n), vb)

TClear ==
    /\ lastV.op \in {"none", "build"}
    /\ TDid("clear", va.size, VecClear(va), va)

TResize ==
    /\ lastV.op = "clear"
    /\ TDid("resize", lastV.n, VecResize(host, va, lastV.n), vb)

NextRestore ==
    \/ TBuild
    \/ TShrinkBy
    \/ TExpandBy
    \/ TClear
    \/ TResize

SpecRestore == InitRestore /\ [][NextRestore]_vars

-----------------------------------------------------------------------------
(* The detaching client: a Vector built from raw bytes, a view detached    *)
(* with popBackBuffer and kept, then one value pushed.  The view is the    *)
(* pair of its offsets into the storage of the vector; it is live as long  *)
(* as that storage has not been reallocated, and reading a live view reads *)
(* the bytes the storage holds then.                                       *)

DDid(op, v, view, live, pushed) ==
    /\ va' = v
    /\ lastV' = [op |-> op, view |-> view, live |-> live, pushed |-> pushed]
    /\ UNCHANGED <<host, sw, key, hist, vb>>
    /\ UNCHANGED bufVars

NoOffsets == [begin |-> 0, end |-> 0]

DBuild ==
    /\ lastV.op \in {"none", "build"}
    /\ va.size < MaxVecSize + 2
    /\ \E byte \in {<<1>>, <<2>>} :
          DDid("build", VecPushBackRaw(host, va, byte), NoOffsets, FALSE, <<>>)

DPopBackBuffer ==
    /\ lastV.op \in {"none", "build"}
    /\ \E n \in 0..(MaxVecSize + 3) :
          LET r == popBackBuffer(va, n)
          IN  DDid("popBackBuffer", r.v, [begin |-> r.view.begin, end |-> r.view.end],
                   TRUE, <<>>)

DPushBack ==
    /\ lastV.op = "popBackBuffer"
    /\ \E value \in {Pattern(1), Pattern(2), Pattern(4)} :
          LET v == VecPushBack(stream_endian, host, va, value)
          IN  DDid("pushBack", v, lastV.view, v.cap = va.cap, value)

NextView ==
    \/ DBuild
    \/ DPopBackBuffer
    \/ DPushBack

SpecView == InitRestore /\ [][NextView]_vars

-----------------------------------------------------------------------------
(* The appending client: a Vector constructed empty, then fixed-width      *)
(* values appended one at a time.                                          *)

GrowValues == {Pattern(w) : w \in Widths} \cup {Unit(1)}

InitGrow ==
    /\ host \in VecHosts
    /\ sw = IdleSwap
    /\ NoBuffers
    /\ va = VecNew(0)
    /\ vb = VecNew(0)
    /\ lastV = NoVCall
    /\ hist = <<>>
    /\ key = IdleKey

GPushBack ==
    \E value \in GrowValues :
        /\ va.size + Len(value) <= MaxGrowSize
        /\ va' = VecPushBack(stream_endian, host, va, value)
        /\ hist' = Append(hist, value)
        /\ lastV' = [op |-> "pushBack", n |-> Len(value), arg |-> value,
                     ret |-> FALSE, out |-> <<>>, view |-> NoView]
        /\ UNCHANGED <<host, sw, key, vb>>
        /\ UNCHANGED bufVars

NextGrow == GPushBack

SpecGrow == InitGrow /\ [][NextGrow]_vars

-----------------------------------------------------------------------------
(* The comparing client: two Vectors constructed empty, raw bytes appended *)
(* to and removed from either, capacity reserved, and the two compared.    *)

InitEq ==
    /\ host \in VecHosts
    /\ sw = IdleSwap
    /\ NoBuffers
    /\ va = VecNew(0)
    /\ vb = VecNew(0)
    /\ lastV = NoVCall
    /\ hist = <<>>
    /\ key = IdleKey

\* the effect of a call that left the two vectors as a and b
EqDid(op, a, b, eq, ne) ==
    /\ Len(a.data) <= MaxEqSize /\ Len(b.data) <= MaxEqSize
    /\ va' = a
    /\ vb' = b
    /\ lastV' = [op |-> op, eq |-> eq, ne |-> ne]
    /\ UNCHANGED <<host, sw, key, hist>>
    /\ UNCHANGED bufVars

EqPushBackRaw ==
    \E byte \in {<<0>>, <<1>>} :
        \/ EqDid("build", VecPushBackRaw(host, va, byte), vb, FALSE, FALSE)
        \/ EqDid("build", va, VecPushBackRaw(host, vb, byte), FALSE, FALSE)

EqShrinkBy ==
    \/ EqDid("build", VecShrinkBy(va, 1).v, vb, FALSE, FALSE)
    \/ EqDid("build", va, VecShrinkBy(vb, 1).v, FALSE, FALSE)

EqReserve ==
    \/ EqDid("build", VecReserve(host, va, MaxEqSize), vb, FALSE, FALSE)
    \/ EqDid("build", va, VecReserve(host, vb, MaxEqSize), FALSE, FALSE)

\* va == vb and va != vb
EqCompare ==
    EqDid("compare", va, vb, VecEq(va, vb), VecNe(va, vb))

NextEq ==
    \/ EqPushBackRaw
    \/ EqShrinkBy
    \/ EqReserve
    \/ EqCompare

SpecEq == InitEq /\ [][NextEq]_vars

-----------------------------------------------------------------------------
(* Which overload a call of a push or pop entry point selects.  A type is  *)
(* the record of its traits; for a std::span<T, N> the e-fields are the    *)
(* traits of T.  toString: the type converts implicitly to std::string.    *)

Ty(name, kind, integral, enum, unique, trivial, const) ==
    [name |-> name, kind |-> kind, integral |-> integral, enum |-> enum,
     unique |-> unique, trivial |-> trivial, const |-> const,
     eintegral |-> FALSE, eenum |-> FALSE, eunique |-> FALSE, econst |-> FALSE,
     toString |-> FALSE]

SpanOf(name, elem) ==
    [name |-> name, kind |-> "span", integral |-> FALSE, enum |-> FALSE,
     unique |-> TRUE, trivial |-> TRUE, const |-> FALSE,
     eintegral |-> elem.integral, eenum |-> elem.enum, eunique |-> elem.unique,
     econst |-> elem.const, toString |-> FALSE]

\* the element type of a span type
ElementOf(a) ==
    [integral |-> a.eintegral, enum |-> a.eenum, unique |-> a.eunique,
     trivial |-> TRUE, const |-> a.econst]

\* a type without its top-level const
Decayed(a) == [a EXCEPT !.const = FALSE]

\* a slip in SwapType: any type with unique object representations passes
SwapTypeAnyUnique(T) == T.unique

\* concept SwapType
SwapType(T) == T.unique /\ (T.enum \/ T.integral)

\* concept SwapTypeNonConst
SwapTypeNonConst(T) == ~T.const /\ T.unique /\ (T.enum \/ T.integral)

\* concept TrivialType
TrivialType(T) == T.trivial

\* concept TrivialTypeNonConst
TrivialTypeNonConst(T) == T.trivial /\ ~T.const

Satisfies(concept, T) ==
    CASE concept = "SwapType" -> SwapType(T)
      [] concept = "SwapTypeNonConst" -> SwapTypeNonConst(T)
      [] concept = "TrivialType" -> TrivialType(T)
      [] concept = "TrivialTypeNonConst" -> TrivialTypeNonConst(T)
      [] OTHER -> TRUE

\* one declared overload: the path it leads to, the form of its parameter,
\* the concept constraining T ("any" when unconstrained), whether deleted
Overload(path, param, concept, deleted) ==
    [path |-> path, param |-> param, concept |-> concept, deleted |-> deleted]

\* the overloads of the push entry points of BasicWriteBuffer
WritePushOverloads ==
    { Overload("deleted", "T", "any", TRUE),
      Overload("swap", "T", "SwapType", FALSE),
      Overload("span", "const span<T>&", "SwapType", FALSE),
      Overload("string", "const string&", "any", FALSE),
      Overload("wstring", "const wstring&", "any", FALSE) }

\* the overloads of the pop entry points of BasicReadBuffer and of
\* BasicVector::popBack
PopOverloads ==
    { Overload("swap", "T&", "SwapTypeNonConst", FALSE),
      Overload("span", "span<T>", "SwapTypeNonConst", FALSE),
      Overload("string", "string&", "any", FALSE),
      Overload("wstring", "wstring&", "any", FALSE) }

\* the declarations behind every entry point
OverloadsOf(entry) ==
    CASE entry \in {"BasicWriteBuffer::pushBack", "BasicWriteBuffer::unsafePushBack",
                    "BasicVector::pushBack"} -> WritePushOverloads
      [] entry = "BasicWriteBuffer::pushBackSome" ->
            { Overload("span", "const span<T>&", "SwapType", FALSE) }
      [] entry \in {"BasicReadBuffer::popFront", "BasicReadBuffer::popBack",
                    "BasicVector::popBack"} -> PopOverloads
      [] entry \in {"BasicReadBuffer::unsafePopFront", "BasicReadBuffer::unsafePopBack"} ->
            { Overload("swap", "T&", "SwapTypeNonConst", FALSE),
              Overload("span", "span<T>", "SwapTypeNonConst", FALSE) }
      [] entry = "BasicVector::unsafePushBack" ->
            { Overload("swap", "T", "SwapType", FALSE) }
      [] entry = "BasicVector::pushBackRaw" ->
            { Overload("raw", "const T&", "TrivialType", FALSE) }
      [] entry = "BasicVector::popBackRaw" ->
            { Overload("raw", "T&", "TrivialTypeNonConst", FALSE) }

Entries ==
    {"BasicWriteBuffer::pushBack", "BasicWriteBuffer::unsafePushBack",
     "BasicWriteBuffer::pushBackSome", "BasicReadBuffer::popFront",
     "BasicReadBuffer::popBack", "BasicReadBuffer::unsafePopFront",
     "BasicReadBuffer::unsafePopBack", "BasicVector::pushBack",
     "BasicVector::unsafePushBack", "BasicVector::popBack",
     "BasicVector::pushBackRaw", "BasicVector::popBackRaw"}

\* how well an overload matches an argument (an lvalue of type a): 0 it is
\* not viable, 1 viable through a user-defined conversion, 2 the
\* unconstrained template, 3 a constrained or more specialized template,
\* 4 a function that is no template
Match(o, a) ==
    CASE o.param = "T" ->
            IF ~Satisfies(o.concept, Decayed(a)) THEN 0
            ELSE IF o.concept = "any" THEN 2 ELSE 3
      [] o.param = "const T&" ->
            IF Satisfies(o.concept, Decayed(a)) THEN 3 ELSE 0
      [] o.param = "T&" ->
            IF Satisfies(o.concept, a) THEN 3 ELSE 0
      [] o.param \in {"const span<T>&", "span<T>"} ->
            IF a.kind = "span" /\ Satisfies(o.concept, ElementOf(a)) THEN 3 ELSE 0
      [] o.param = "const string&" ->
            IF a.kind = "string" THEN 4 ELSE IF a.toString THEN 1 ELSE 0
      [] o.param = "const wstring&" ->
            IF a.kind = "wstring" THEN 4 ELSE 0
      [] o.param = "string&" ->
            IF a.kind = "string" /\ ~a.const THEN 4 ELSE 0
      [] o.param = "wstring&" ->
            IF a.kind = "wstring" /\ ~a.const THEN 4 ELSE 0

\* the path a call of the entry point with an argument of type a takes:
\* the path of the best viable overload, or "ill-formed" when there is none
\* or the best one is deleted
Resolve(entry, a) ==
    LET viable == {o \in OverloadsOf(entry) : Match(o, a) > 0}
    IN  IF viable = {} THEN "ill-formed"
        ELSE LET best == CHOOSE o \in viable : \A p \in viable : Match(p, a) <= Match(o, a)
             IN  IF best.deleted THEN "ill-formed" ELSE best.path

\* argument types
Int32 == Ty("int32_t", "scalar", TRUE, FALSE, TRUE, TRUE, FALSE)
ArgTypes ==
    { Int32,
      Ty("uint8_t", "scalar", TRUE, FALSE, TRUE, TRUE, FALSE),
      Ty("bool", "scalar", TRUE, FALSE, TRUE, TRUE, FALSE),
      Ty("const int32_t", "scalar", TRUE, FALSE, TRUE, TRUE, TRUE),
      Ty("enum class : uint16_t", "scalar", FALSE, TRUE, TRUE, TRUE, FALSE),
      Ty("float", "scalar", FALSE, FALSE, FALSE, TRUE, FALSE),
      Ty("double", "scalar", FALSE, FALSE, FALSE, TRUE, FALSE),
      Ty("struct { int32_t a; }", "class", FALSE, FALSE, TRUE, TRUE, FALSE),
      Ty("struct { char a; int32_t b; }", "class", FALSE, FALSE, FALSE, TRUE, FALSE),
      Ty("std::vector<int>", "class", FALSE, FALSE, FALSE, FALSE, FALSE),
      [Ty("const char*", "pointer", FALSE, FALSE, TRUE, TRUE, FALSE) EXCEPT !.toString = TRUE],
      Ty("std::string", "string", FALSE, FALSE, FALSE, FALSE, FALSE),
      Ty("const std::string", "string", FALSE, FALSE, FALSE, FALSE, TRUE),
      Ty("std::wstring", "wstring", FALSE, FALSE, FALSE, FALSE, FALSE),
      SpanOf("std::span<int32_t>", Int32),
      SpanOf("std::span<const int32_t>", [Int32 EXCEPT !.const = TRUE]),
      SpanOf("std::span<float>", Ty("float", "scalar", FALSE, FALSE, FALSE, TRUE, FALSE)) }

InitGate ==
    /\ host \in Hosts
    /\ sw = IdleSwap
    /\ NoBuffers
    /\ NoVectors
    /\ key = IdleKey

\* a call of an entry point with an argument of some type is compiled
GCall ==
    \E entry \in Entries, a \in ArgTypes :
        /\ lastV.op = "none"
        /\ lastV' = [op |-> entry, type |-> a, path |-> Resolve(entry, a)]
        /\ UNCHANGED <<host, sw, key, va, vb, hist>>
        /\ UNCHANGED bufVars

NextGate == GCall

SpecGate == InitGate /\ [][NextGate]_vars

-----------------------------------------------------------------------------
(* The key client: ByteArray<N> objects constructed from narrow strings.   *)

KeySizes == 1..MaxKeySize
KeyChars == {0, 97, 98}

RECURSIVE KeyStringsOf(_)
KeyStringsOf(n) ==
    IF n = 0 THEN {<<>>}
    ELSE {<<c>> \o s : c \in KeyChars, s \in KeyStringsOf(n - 1)}

KeyStrings == UNION {KeyStringsOf(n) : n \in 0..MaxKeyLen}

InitKey ==
    /\ host \in Hosts
    /\ sw = IdleSwap
    /\ NoBuffers
    /\ NoVectors
    /\ key = IdleKey

\* ByteArray<N>(const std::string& str)
KFill ==
    \E N \in KeySizes, str \in KeyStrings :
        LET r == fill(N, str)
        IN  /\ key.stage = "idle"
            /\ key' = [stage |-> "filled", n |-> N, str |-> str,
                       bytes |-> r.m, hash |-> r.ret, whole |-> generateHash(r.m),
                       text |-> toString(r.m)]
            /\ UNCHANGED <<host, sw>>
            /\ UNCHANGED bufVars
            /\ UNCHANGED vecVars

NextKey == KFill

SpecKey == InitKey /\ [][NextKey]_vars

-----------------------------------------------------------------------------
(* The reassigning key client: a ByteArray<N> constructed from a string    *)
(* and then assigned other strings, any number of times.                   *)

AssignStrings == UNION {KeyStringsOf(n) : n \in 0..MaxAssignLen}

\* ByteArray<N>(const std::string& str)
ABuild ==
    \E N \in KeySizes, str \in AssignStrings :
        LET r == fill(N, str)
        IN  /\ key.stage = "idle"
            /\ key' = [stage |-> "filled", n |-> N, str |-> str,
                       bytes |-> r.m, hash |-> r.ret, whole |-> generateHash(r.m),
                       text |-> toString(r.m)]
            /\ UNCHANGED <<host, sw>>
            /\ UNCHANGED bufVars
            /\ UNCHANGED vecVars

\* array = str
AAssign ==
    \E str \in AssignStrings :
        LET r == assignString(key.bytes, str)
        IN  /\ key.stage \in {"filled", "assigned"}
            /\ key' = [stage |-> "assigned", n |-> key.n, str |-> str,
                       bytes |-> r.m, hash |-> r.ret, whole |-> generateHash(r.m),
                       text |-> toString(r.m)]
            /\ UNCHANGED <<host, sw>>
            /\ UNCHANGED bufVars
            /\ UNCHANGED vecVars

NextAssign == ABuild \/ AAssign

SpecAssign == InitKey /\ [][NextAssign]_vars

-----------------------------------------------------------------------------
(* The byteSwap driver: a value is drawn, swapped, and swapped again.      *)

InitSwap ==
    /\ host \in Hosts
    /\ \E kind \in {"int", "enum"} : \E value \in SwapInputs :
          sw = [stage |-> "input", kind |-> kind, value |-> value,
                once |-> <<>>, twice |-> <<>>]
    /\ NoBuffers
    /\ NoVectors
    /\ key = IdleKey

SwapOnce ==
    /\ sw.stage = "input"
    /\ sw' = [sw EXCEPT !.stage = "once",
                        !.once = byteSwapOf(host.impl, sw.kind, sw.value)]
    /\ UNCHANGED <<host, key>>
    /\ UNCHANGED bufVars
    /\ UNCHANGED vecVars

SwapTwice ==
    /\ sw.stage = "once"
    /\ sw' = [sw EXCEPT !.stage = "twice",
                        !.twice = byteSwapOf(host.impl, sw.kind, sw.once)]
    /\ UNCHANGED <<host, key>>
    /\ UNCHANGED bufVars
    /\ UNCHANGED vecVars

NextSwap == SwapOnce \/ SwapTwice

SpecSwap == InitSwap /\ [][NextSwap]_vars

-----------------------------------------------------------------------------
(* Properties.                                                             *)

\* the four bytes of a length in little-endian order, and the framed
\* encoding of a narrow string as the wire format defines it
LE32(n) == <<n % 256, (n \div 256) % 256, (n \div 65536) % 256, (n \div 16777216) % 256>>
FrameOf(str) == LE32(Len(str)) \o str \o LE32(Len(str))

StringReads == {"popFrontString", "popBackString"}

\* C1: a framed-string decode that reports failure leaves the destination
\* string empty, whatever it held, and both cursors of the read buffer where
\* they were before the call.
C1_StringDecodeAllOrNothing ==
    (lastR.op \in StringReads /\ lastR.ret) =>
        /\ lastR.out = <<>>
        /\ rb = lastR.pre.rb
        /\ mem = lastR.pre.mem

\* C1 happens: the frame of "hello" with trailing length 6 is refused from
\* the front, with a destination that held "hello"
C1_Witness ==
    /\ lastR.op = "popFrontString" /\ lastR.ret
    /\ lastR.old = Hello
    /\ lastR.pre.mem = HelloCorrupt
    /\ size(lastR.pre.rb) = 13

\* C2: a safe value or span call (pushBack, popFront, popBack) or a safe
\* narrow-string pushBack that reports failure has changed nothing: the
\* cursors, the memory and, for a read, the destination are as before.
C2_FailureChangesNothing ==
    /\ (lastW.op \in {"pushBack", "pushBackSpan", "pushBackString"} /\ lastW.ret) =>
          /\ wb = lastW.pre.wb
          /\ mem = lastW.pre.mem
          /\ (stage = "written" => rb = lastW.pre.rb)
    /\ (lastR.op \in {"popFront", "popBack", "popFrontSpan", "popBackSpan"} /\ lastR.ret) =>
          /\ rb = lastR.pre.rb
          /\ wb = lastR.pre.wb
          /\ mem = lastR.pre.mem
          /\ lastR.out = lastR.old

\* C2 happens: a span of two 4-byte elements is refused by a buffer with
\* room for one of them
C2_Witness ==
    /\ lastW.op = "pushBackSpan" /\ lastW.ret
    /\ lastW.w = 4 /\ Len(lastW.arg) = 2
    /\ size(lastW.pre.wb) >= 4

\* C3: a successful push of a w-byte value stores byte i of the value
\* ((x >> 8i) mod 256) at the cursor plus i, on every host, touches no other
\* byte and advances the cursor by w; a successful push of a span stores the
\* encodings of its elements one after another in order and advances the
\* cursor by w times the element count.
C3_WireLayout ==
    LET b == lastW.pre.wb.begin
        w == lastW.w
        x == lastW.arg
    IN  /\ (lastW.op = "pushBack" /\ ~lastW.ret) =>
              /\ wb = [begin |-> b + w, end |-> lastW.pre.wb.end]
              /\ \A i \in 1..MemLen :
                    mem[i] = IF b < i /\ i <= b + w THEN x[i - b] ELSE lastW.pre.mem[i]
        /\ (lastW.op = "pushBackSpan" /\ ~lastW.ret) =>
              /\ wb = [begin |-> b + w * Len(x), end |-> lastW.pre.wb.end]
              /\ \A i \in 1..MemLen :
                    mem[i] = IF b < i /\ i <= b + w * Len(x)
                             THEN x[((i - b - 1) \div w) + 1][((i - b - 1) % w) + 1]
                             ELSE lastW.pre.mem[i]

\* C3 happens: a span of two 4-byte elements, the first 0x12345678, has been
\* written on a big-endian host
C3_Witness ==
    /\ host.native = "big"
    /\ lastW.op = "pushBackSpan" /\ ~lastW.ret
    /\ lastW.w = 4 /\ Len(lastW.arg) = 2
    /\ lastW.arg[1] = <<120, 86, 52, 18>>

\* C4: a value, or a span, written into a buffer of exactly its encoded
\* size and read back over the same bytes with popFront or with popBack is
\* read successfully and equals what was written, element for element, on
\* every host.
C4_RoundTrip ==
    /\ ( /\ lastW.op = "pushBack" /\ ~lastW.ret
         /\ size(lastW.pre.wb) = lastW.w
         /\ lastR.op \in {"popFront", "popBack"}
         /\ lastR.w = lastW.w ) =>
            (~lastR.ret /\ lastR.out = lastW.arg)
    /\ ( /\ lastW.op = "pushBackSpan" /\ ~lastW.ret
         /\ size(lastW.pre.wb) = lastW.w * Len(lastW.arg)
         /\ lastR.op \in {"popFrontSpan", "popBackSpan"}
         /\ lastR.w = lastW.w
         /\ Len(lastR.old) = Len(lastW.arg) ) =>
            (~lastR.ret /\ lastR.out = lastW.arg)

\* C4 happens: two 4-byte elements written on a big-endian host whose swap
\* is the generic one were read back from the back
C4_Witness ==
    /\ host.native = "big" /\ host.impl = "fallback"
    /\ lastW.op = "pushBackSpan" /\ ~lastW.ret
    /\ lastW.w = 4 /\ Len(lastW.arg) = 2
    /\ size(lastW.pre.wb) = 8
    /\ lastR.op = "popBackSpan" /\ ~lastR.ret
    /\ lastR.w = 4 /\ Len(lastR.old) = 2

\* C5: a successful push of a narrow string of length L writes 8 + L bytes
\* at the cursor: L as four little-endian bytes, the L content bytes as they
\* are, L again; nothing else changes and the cursor advances by 8 + L.  For
\* "hello" the bytes are 05 00 00 00 h e l l o 05 00 00 00, 13 in all.
C5_StringEncoding ==
    LET b == lastW.pre.wb.begin
        str == lastW.arg
    IN  (lastW.op = "pushBackString" /\ ~lastW.ret) =>
            /\ wb = [begin |-> b + 8 + Len(str), end |-> lastW.pre.wb.end]
            /\ \A i \in 1..MemLen :
                  mem[i] = IF b < i /\ i <= b + 8 + Len(str)
                           THEN FrameOf(str)[i - b]
                           ELSE lastW.pre.mem[i]
            /\ str = Hello =>
                  /\ wb.begin = b + 13
                  /\ ReadBytes(mem, b, 13) =
                        <<5, 0, 0, 0, 104, 101, 108, 108, 111, 5, 0, 0, 0>>

\* C5 happens: "hello" has been written on a big-endian host
C5_Witness ==
    /\ host.native = "big"
    /\ lastW.op = "pushBackString" /\ ~lastW.ret
    /\ lastW.arg = Hello

\* C6: when the bytes at the front of a read buffer are the frame of a string
\* s, popFront(string) succeeds, yields s and advances begin by 8 + |s|,
\* leaving end alone; when the bytes at the back are the frame of s,
\* popBack(string) succeeds, yields s and retreats end by 8 + |s|, leaving
\* begin alone.
C6_ValidFrameDecodes ==
    \A str \in Strings :
        LET n == 8 + Len(str)
            p == lastR.pre.rb
        IN  /\ ( /\ lastR.op = "popFrontString"
                 /\ p.begin + n <= p.end
                 /\ ReadBytes(lastR.pre.mem, p.begin, n) = FrameOf(str) ) =>
                    /\ ~lastR.ret
                    /\ lastR.out = str
                    /\ rb = [begin |-> p.begin + n, end |-> p.end]
            /\ ( /\ lastR.op = "popBackString"
                 /\ p.begin + n <= p.end
                 /\ ReadBytes(lastR.pre.mem, p.end - n, n) = FrameOf(str) ) =>
                    /\ ~lastR.ret
                    /\ lastR.out = str
                    /\ rb = [begin |-> p.begin, end |-> p.end - n]

\* C6 happens: "hello" written by the write buffer was decoded from the back
\* on a big-endian host
C6_Witness ==
    /\ host.native = "big"
    /\ lastW.op = "pushBackString" /\ ~lastW.ret
    /\ lastR.op = "popBackString" /\ ~lastR.ret
    /\ lastR.out = Hello
    /\ lastR.old = <<>>

\* C7: a safe push of a wide string of L characters succeeds exactly when
\* 8 + L * sizeof(wchar_t) bytes remain; a failed push changes nothing; and
\* in either case no byte outside [begin, end) of the buffer is written, no
\* byte outside the caller's array is accessed and the cursor stays at or
\* before end.
C7_WideStringPushChecked ==
    LET p == lastW.pre.wb
        need == 8 + Len(lastW.arg) * host.wchar
    IN  lastW.op = "pushBackWString" =>
            /\ ~lastW.ret <=> (need <= size(p))
            /\ lastW.ret => (wb = p /\ mem = lastW.pre.mem)
            /\ ~ub
            /\ wb.begin <= wb.end
            /\ \A i \in 1..MemLen :
                  (i <= p.begin \/ i > p.end) => mem[i] = lastW.pre.mem[i]

\* C8: a safe push of a w-byte value succeeds exactly when at least w bytes
\* remain; with w - 1 bytes remaining it fails and leaves the cursor alone;
\* with exactly w bytes remaining it succeeds, advances the cursor by w and
\* leaves the buffer empty and not in error.
C8_ExactFit ==
    LET p == lastW.pre.wb
        w == lastW.w
    IN  lastW.op = "pushBack" =>
            /\ ~lastW.ret <=> (size(p) >= w)
            /\ size(p) = w - 1 => (lastW.ret /\ wb = p)
            /\ size(p) = w =>
                  /\ ~lastW.ret
                  /\ wb.begin = p.begin + w
                  /\ empty(wb)
                  /\ ~error(wb)

\* C8 happens: a 4-byte value was pushed into exactly 4 remaining bytes
C8_Witness ==
    /\ lastW.op = "pushBack" /\ ~lastW.ret
    /\ lastW.w = 4
    /\ size(lastW.pre.wb) = 4

\* C9: byteSwap applied twice returns the value it started from, for every
\* width in {1, 2, 4, 8}, for integers and for enumerations, and for width 1
\* a single byteSwap already returns the value.
C9_SwapInvolution ==
    /\ sw.stage = "twice" => sw.twice = sw.value
    /\ (sw.stage \in {"once", "twice"} /\ Len(sw.value) = 1) => sw.once = sw.value

\* C9 happens: an 8-byte enumeration value whose ends differ was swapped
\* twice by the generic swap
C9_Witness ==
    /\ sw.stage = "twice"
    /\ sw.kind = "enum"
    /\ host.impl = "fallback"
    /\ Len(sw.value) = 8
    /\ sw.value[1] # sw.value[8]

\* C10: byteSwap of a value of 2, 4 or 8 bytes is the reversal of its bytes:
\* byte i of the result is byte w - 1 - i of the input, with the intrinsics
\* and with the generic mask-and-shift macros; byteSwap(0x12345678) is
\* 0x78563412.
C10_SwapReversesBytes ==
    (sw.stage \in {"once", "twice"} /\ Len(sw.value) \in {2, 4, 8}) =>
        /\ Len(sw.once) = Len(sw.value)
        /\ \A i \in 1..Len(sw.value) : sw.once[i] = sw.value[Len(sw.value) + 1 - i]
        /\ sw.value = <<120, 86, 52, 18>> => sw.once = <<18, 52, 86, 120>>

\* C10 happens: the generic macros swapped 0x12345678
C10_Witness ==
    /\ sw.stage = "once"
    /\ host.impl = "fallback"
    /\ sw.value = <<120, 86, 52, 18>>

Prefix(v, n) == [i \in 1..n |-> v.data[i]]

\* C12: after any sequence of operations on a growable buffer its logical
\* size is at most the length of its allocated storage, which is at most
\* its capacity; the same holds of the buffer it was move-assigned from.
C12_SizeWithinStorage ==
    /\ 0 <= va.size /\ va.size <= Len(va.data) /\ Len(va.data) <= va.cap
    /\ 0 <= vb.size /\ vb.size <= Len(vb.data) /\ Len(vb.data) <= vb.cap

\* C12 happens: a value has been appended to a full buffer, and the
\* reallocation left spare capacity
C12_Witness ==
    /\ lastV.op = "pushBack"
    /\ va.size = Len(va.data)
    /\ va.cap > Len(va.data)

\* C13: a failed popBack of a value, a span or a narrow string leaves the
\* logical size and the content of the buffer as they were; a successful
\* one lowers the logical size by exactly the encoded length of the item
\* (sizeof(T), sizeof(T) * count, 8 + length) and leaves the bytes below the
\* new size as they were.
C13_VectorPopBack ==
    [][ lastV'.op \in {"popBack", "popBackSpan", "popBackString"} =>
          LET encoded == CASE lastV'.op = "popBack" -> lastV'.n
                           [] lastV'.op = "popBackSpan" -> lastV'.n * Len(lastV'.arg)
                           [] lastV'.op = "popBackString" -> 8 + Len(lastV'.out)
          IN  IF lastV'.ret
              THEN va'.size = va.size /\ va'.data = va.data
              ELSE /\ va'.size = va.size - encoded
                   /\ va'.size >= 0
                   /\ Prefix(va', va'.size) = Prefix(va, va'.size) ]_vars

\* C13 happens: the framed string "\x01" has been popped off a buffer
C13_Witness ==
    /\ lastV.op = "popBackString"
    /\ ~lastV.ret
    /\ lastV.out = <<1>>

\* C14: popBackBuffer(n) on a buffer of logical size s lowers the size by
\* m = min(n, s) and returns a read view of exactly m bytes that starts at
\* the new logical end, over the storage of the buffer itself; reading the
\* view gives the m removed bytes in their order, and the call changes no
\* byte and no capacity.
C14_PopBackBuffer ==
    [][ lastV'.op = "popBackBuffer" =>
          LET m == Min(lastV'.n, va.size)
              view == lastV'.view
          IN  /\ va'.size = va.size - m
              /\ view.begin = va'.size
              /\ size(view) = m
              /\ view.mem = va'.data
              /\ unsafePopFrontSpan(stream_endian, host, view, 1, m).out
                    = [i \in 1..m |-> <<va.data[va.size - m + i]>>]
              /\ va'.data = va.data
              /\ va'.cap = va.cap ]_vars

\* C14 happens: two bytes, not both zero, have been detached from a buffer
\* that keeps at least one
C14_Witness ==
    /\ lastV.op = "popBackBuffer"
    /\ lastV.n = 2
    /\ size(lastV.view) = 2
    /\ va.size >= 1
    /\ ReadBytes(lastV.view.mem, lastV.view.begin, 2) # <<0, 0>>

\* C15: shrinkBy(n) on a buffer of logical size s returns min(n, s) and
\* leaves the size at s minus that, never below zero, with the capacity and
\* every stored byte as they were.
C15_ShrinkBy ==
    [][ lastV'.op = "shrinkBy" =>
          /\ lastV'.ret = Min(lastV'.n, va.size)
          /\ va'.size = va.size - lastV'.ret
          /\ va'.size >= 0
          /\ va'.cap = va.cap
          /\ va'.data = va.data ]_vars

\* C15 happens: a very large shrink has emptied a buffer that held bytes
C15_Witness ==
    /\ lastV.op = "shrinkBy"
    /\ lastV.n = 2147483647
    /\ lastV.ret > 0
    /\ va.size = 0

\* the operations C17 is about
KeepsCapacity ==
    {"reserve", "resize", "clear", "shrinkBy", "expandBy", "pushBack",
     "pushBackSpan", "pushBackString", "pushBackWString", "pushBackRaw",
     "popBack", "popBackSpan", "popBackString", "popBackWString",
     "popBackRaw", "popBackBuffer"}

\* C17: none of reserve, resize, clear, shrinkBy, expandBy, pushBack,
\* popBack and popBackBuffer lowers the capacity; clear and shrinkBy change
\* the logical size only; reserve(n) leaves the capacity at n or more and
\* the logical size and the content as they were.
C17_CapacityNeverShrinks ==
    [][ /\ lastV'.op \in KeepsCapacity => va'.cap >= va.cap
        /\ lastV'.op \in {"clear", "shrinkBy"} =>
              va'.cap = va.cap /\ va'.data = va.data
        /\ lastV'.op = "reserve" =>
              /\ va'.cap >= lastV'.n
              /\ va'.size = va.size
              /\ Prefix(va', va.size) = Prefix(va, va.size) ]_vars

\* C17 happens: reserve has raised the capacity of a buffer that holds
\* bytes
C17_Witness ==
    /\ lastV.op = "reserve"
    /\ lastV.n = MaxVecSize
    /\ va.cap = MaxVecSize
    /\ va.size > 0 /\ va.size < va.cap

\* the sum of the widths of a sequence of values
RECURSIVE TotalWidth(_)
TotalWidth(values) ==
    IF values = <<>> THEN 0 ELSE Len(Head(values)) + TotalWidth(Tail(values))

\* a bounded write buffer after the safe pushes of a sequence of values, and
\* whether every push succeeded
RECURSIVE WriteAll(_, _, _)
WriteAll(h, s, values) ==
    IF values = <<>> THEN [s |-> s, ok |-> TRUE]
    ELSE LET r == pushBack(stream_endian, h, s, Head(values))
             rest == WriteAll(h, r.s, Tail(values))
         IN  [s |-> rest.s, ok |-> ~r.ret /\ rest.ok]

\* C16: after fixed-width values have been appended one at a time to an
\* initially empty growable buffer, whatever reallocations that took, the
\* logical size is the sum of their widths and the content is byte for
\* byte what the same values written in the same order leave in a bounded
\* write buffer of exactly that size.
C16_GrowthPreservesContent ==
    LET total == TotalWidth(hist)
        w == WriteAll(host, [mem |-> ZeroBytes(total), begin |-> 0, end |-> total], hist)
    IN  /\ va.size = total
        /\ w.ok
        /\ Prefix(va, va.size) = w.s.mem

\* C16 happens: three or more values of different widths have been appended
\* on a big-endian host, the storage was reallocated on the way
C16_Witness ==
    /\ host.native = "big"
    /\ Len(hist) >= 3
    /\ hist[1] = Pattern(2) /\ hist[2] = Pattern(1) /\ hist[3] = Pattern(4)
    /\ va.cap > va.size

\* C18: two growable buffers compare equal exactly when their logical
\* sizes are equal and their first size bytes are the same, whatever their
\* capacities, their storage beyond the logical size and the way they were
\* built; operator!= is the negation of operator==.
C18_VectorEquality ==
    lastV.op = "compare" =>
        /\ lastV.eq <=> (va.size = vb.size /\ Prefix(va, va.size) = Prefix(vb, vb.size))
        /\ lastV.ne <=> ~lastV.eq

\* C18 happens: two buffers that hold the same byte compared equal though
\* their capacities and the bytes stored beyond their sizes differ
C18_Witness ==
    /\ lastV.op = "compare" /\ lastV.eq
    /\ va.size = 1 /\ va.data[1] = 1
    /\ Len(va.data) = 2 /\ va.data[2] = 1
    /\ Len(vb.data) = 1
    /\ va.cap # vb.cap

\* the non-zero bytes of a string, in order
NonZero(str) == SelectSeq(str, LAMBDA c : c # 0)

\* C19 as stated: with k the smaller of N and the number of non-zero bytes
\* of the input, the first k bytes of the array are the first k non-zero
\* bytes of the input in order; an input longer than N that has N non-zero
\* bytes or more yields exactly its first N non-zero bytes.
C19_CopyPhaseAsStated ==
    key.stage = "filled" =>
        LET nz == NonZero(key.str)
            k == Min(key.n, Len(nz))
        IN  SubSeq(key.bytes, 1, k) = SubSeq(nz, 1, k)

\* the running hash of C20 at position i of an array m whose first k bytes
\* were copied: the FNV-1a hash of the k copied bytes, then updated with the
\* byte at position j - 1 for every padded position j up to i
RECURSIVE RunningHash(_, _, _)
RunningHash(m, k, i) ==
    IF i <= k THEN HashRange(m, HashInit, 0, k)
    ELSE computeNextHash(RunningHash(m, k, i - 1), U64(m[i]))

\* C20 as stated: when 0 < k < N bytes were copied, byte k is zero and
\* every later position i holds the low byte of the running hash, which
\* starts as the FNV-1a hash of the k copied bytes and is updated, before
\* each write, with the byte at position i - 1.  (Positions count from 0,
\* sequences from 1.)
C20_PaddingAsStated ==
    (key.stage = "filled" /\ Len(key.str) <= key.n) =>
        LET k == Len(NonZero(key.str))
        IN  (0 < k /\ k < key.n) =>
              /\ key.bytes[k + 1] = 0
              /\ \A i \in (k + 1)..(key.n - 1) :
                     key.bytes[i + 1] = RunningHash(key.bytes, k, i)[1]

\* C21: the bytes and the whole-array hash of a key array depend only on
\* the string it was last built or assigned from: they are those of an
\* array freshly built from that string, whatever the array held before;
\* and a string that contributes no byte leaves the array all zero.
C21_KeyDeterminism ==
    key.stage \in {"filled", "assigned"} =>
        LET fresh == fill(key.n, key.str)
        IN  /\ key.bytes = fresh.m
            /\ key.whole = generateHash(fresh.m)
            /\ key.hash = fresh.ret
            /\ NonZero(key.str) = <<>> => \A i \in 1..key.n : key.bytes[i] = 0

\* C21 happens: an array that held padding has been assigned a shorter
\* string, so that positions which held other bytes are padded anew
C21_Witness ==
    /\ key.stage = "assigned"
    /\ key.n >= 4
    /\ key.str = <<97>>
    /\ key.bytes = <<97, 0, 228, 108>> \o [i \in 1..(key.n - 4) |-> key.bytes[i + 4]]

\* C22 as stated: the whole-array hash is the FNV-1a hash of the N bytes,
\* starting from the init value 14695981039346656037.
C22_WholeHashAsStated ==
    key.stage = "filled" =>
        key.whole = HashRange(key.bytes, HashInit, 0, key.n)

\* integral or enum with unique object representations
Swappable(T) == (T.integral \/ T.enum) /\ T.unique

SkippedTo(begin, end, n) == IF n < 0 THEN end ELSE Min(begin + n, end)
SkippedBackTo(begin, end, n) == IF n < 0 THEN begin ELSE Max(end - n, begin)

\* C24 as stated: skip(n) and skipFront(n) set begin to min(begin + n,
\* end), skipBack(n) sets end to max(end - n, begin), for every n; the other
\* cursor and the bytes are unchanged and no error is reported.
C24_ClampedSkipsAsStated ==
    /\ (lastW.op = "skip" /\ lastR.op = "none") =>
          /\ wb.begin = SkippedTo(lastW.pre.wb.begin, lastW.pre.wb.end, lastW.w)
          /\ wb.end = lastW.pre.wb.end
          /\ mem = lastW.pre.mem
          /\ ~error(wb)
    /\ lastR.op = "skipFront" =>
          /\ rb.begin = SkippedTo(lastR.pre.rb.begin, lastR.pre.rb.end, lastR.w)
          /\ rb.end = lastR.pre.rb.end
          /\ mem = lastR.pre.mem
          /\ ~error(rb)
    /\ lastR.op = "skipBack" =>
          /\ rb.end = SkippedBackTo(lastR.pre.rb.begin, lastR.pre.rb.end, lastR.w)
          /\ rb.begin = lastR.pre.rb.begin
          /\ mem = lastR.pre.mem
          /\ ~error(rb)

\* C25: pushBackSome of a span of elements of width w onto a write buffer
\* with r bytes remaining returns c, the smaller of floor(r / w) and the
\* length of the span; the first c elements stand in the array in stream
\* order where the cursor was, the cursor has advanced by exactly c * w and
\* is not past end, every other byte and end are unchanged; with c = 0
\* nothing has changed.
C25_PushBackSome ==
    lastW.op = "pushBackSome" =>
        LET pre == lastW.pre
            w == lastW.w
            r == pre.wb.end - pre.wb.begin
            c == Min(r \div w, Len(lastW.arg))
            b == pre.wb.begin
        IN  /\ lastW.out = <<c>>
            /\ wb.begin = pre.wb.begin + c * w
            /\ wb.begin <= wb.end
            /\ wb.end = pre.wb.end
            /\ \A i \in 1..MemLen :
                  mem[i] = IF b < i /\ i <= b + c * w
                           THEN lastW.arg[((i - b - 1) \div w) + 1][((i - b - 1) % w) + 1]
                           ELSE pre.mem[i]
            /\ c = 0 => (mem = pre.mem /\ wb = pre.wb)

\* C25 happens: a span of three 4-byte elements met 11 remaining bytes and
\* two of them were written
C25_Witness ==
    /\ lastW.op = "pushBackSome"
    /\ lastW.w = 4 /\ Len(lastW.arg) = 3
    /\ lastW.pre.wb.end - lastW.pre.wb.begin = 11
    /\ lastW.out = <<2>>
    /\ wb.begin = 8

\* C26: an append of extra bytes to a growable buffer of logical size s
\* needs required = s + extra bytes of storage.  When the storage is
\* shorter than that it is grown to exactly required bytes, with a capacity
\* of at least required + required / 2 when extra exceeds 1024; when the
\* storage already holds required bytes, neither its length nor the
\* capacity changes.
C26_GrowthPolicy ==
    [][ lastV'.op \in {"expandBy", "pushBack"} =>
          LET extra == lastV'.n
              required == va.size + extra
          IN  IF Len(va.data) < required
              THEN /\ Len(va'.data) = required
                   /\ va'.cap >= required
                   /\ extra > 1024 => va'.cap >= required + required \div 2
                   /\ va.cap >= required => va'.cap = va.cap
              ELSE /\ Len(va'.data) = Len(va.data)
                   /\ va'.cap = va.cap ]_vars

\* C26 happens: a buffer holding two bytes has been expanded by 1025 and
\* its capacity is one and a half times the 1027 bytes it needs
C26_Witness ==
    /\ lastV.op = "expandBy" /\ lastV.n = 1025
    /\ va.size = 1027
    /\ Len(va.data) = 1027
    /\ va.cap = 1540

\* the number of bytes an item takes on a growable buffer
EncodedSize(item) ==
    CASE item.kind = "value" -> item.w
      [] item.kind = "span" -> item.w * Len(item.value)
      [] item.kind = "string" -> Len(item.value) + 8

RECURSIVE EncodedSizes(_)
EncodedSizes(items) ==
    IF items = <<>> THEN 0 ELSE EncodedSize(Head(items)) + EncodedSizes(Tail(items))

\* C27: items (values, spans, narrow strings, mixed) pushed onto a growable
\* buffer and popped in the reverse order with matching types: every pop
\* succeeds and returns the item that was pushed, and the logical size is
\* the size before the pushes plus the encoded sizes of the items not yet
\* popped, hence the size before the pushes once all are popped.
C27_VectorLifo ==
    /\ lastV.op = "pop" => (~lastV.ret /\ lastV.out = lastV.item.value)
    /\ va.size = vb.size + EncodedSizes(hist)

\* C27 happens: a value, a string and a span were pushed in that order on a
\* big-endian host and all three have been popped again
C27_Witness ==
    /\ host.native = "big"
    /\ lastV.op = "pop"
    /\ lastV.item = Item("value", 4, <<Pattern(4)>>)
    /\ hist = <<>>
    /\ vb.size = 2
    /\ Len(va.data) = 2 + 4 + 10 + 4

\* C28: shrinkBy(k) with k <= size followed by expandBy(k), and clear()
\* followed by resize(old size), leave a growable buffer as it was before:
\* the same logical size, the same bytes everywhere in its storage (the
\* re-exposed ones are not zeroed), the same storage length and capacity.
C28_ShrinkKeepsData ==
    lastV.op \in {"expandBy", "resize"} =>
        /\ va.size = vb.size
        /\ va.data = vb.data
        /\ va.cap = vb.cap

\* C28 happens: a buffer holding the bytes 1, 2, 1 in a larger storage was
\* shrunk by 2 and expanded by 2 again
C28_Witness ==
    /\ lastV.op = "expandBy" /\ lastV.n = 2
    /\ va.size = 3
    /\ Prefix(va, 3) = <<1, 2, 1>>
    /\ Len(va.data) > 3

\* C29: the view popBackBuffer returns covers bytes of the allocated storage
\* of the buffer that start at the new logical end, so none of the bytes
\* the buffer still holds; and after a value has been pushed without a
\* reallocation, the view, still held, reads the bytes of that value where
\* the removed bytes were.
C29_ViewAliasesStorage ==
    /\ lastV.op = "popBackBuffer" =>
          /\ lastV.view.begin = va.size
          /\ lastV.view.begin <= lastV.view.end
          /\ lastV.view.end <= Len(va.data)
    /\ (lastV.op = "pushBack" /\ lastV.live) =>
          LET m == Min(Len(lastV.pushed), size(lastV.view))
          IN  /\ lastV.view.end <= Len(va.data)
              /\ ReadBytes(va.data, lastV.view.begin, m) = SubSeq(lastV.pushed, 1, m)
              /\ va.size = lastV.view.begin + Len(lastV.pushed)

\* C29 happens: a view of the two bytes 2, 1 was detached, then the 2-byte
\* value 0x5678 was pushed without a reallocation and stands where the view
\* points
C29_Witness ==
    /\ lastV.op = "pushBack" /\ lastV.live
    /\ size(lastV.view) = 2
    /\ lastV.pushed = Pattern(2)
    /\ lastV.view.begin >= 1
    /\ ReadBytes(va.data, lastV.view.begin, 2) = <<120, 86>>

\* C30: for a narrow string s without a zero byte, toString() of the key
\* array built from s is the first min(|s|, N) bytes of s: the padding
\* after the terminator is not part of it, and an array filled to N bytes
\* gives all N.
C30_KeyToString ==
    (key.stage = "filled" /\ NonZero(key.str) = key.str) =>
        key.text = SubSeq(key.str, 1, Min(Len(key.str), key.n))

\* C30 happens: an array of 4 bytes built from "ab" carries a terminator
\* and a non-zero padding byte, and gives "ab"
C30_Witness ==
    /\ key.stage = "filled"
    /\ key.n = 4 /\ key.str = <<97, 98>>
    /\ key.bytes[3] = 0 /\ key.bytes[4] # 0
    /\ key.text = <<97, 98>>

=============================================================================
